---- MODULE Spec2Model ----
(***************************************************************************)
(* A model of release_tool: the version algebra of stage 4 / stage 6       *)
(* (bump_version, _next_dev_version) and the git operation layer of        *)
(* git_utils.py (_run_git, commit_all, _push_repo).                        *)
(*                                                                         *)
(* Version strings, git output and regular expressions are modelled on     *)
(* sequences of one-character strings, so that parsing and formatting are  *)
(* computed and not assumed.                                               *)
(***************************************************************************)
EXTENDS Integers, Sequences, FiniteSets, TLC

VARIABLES
    mode,             \* which part of the program this behaviour exercises
    current_version,  \* stage4.bump_package: the manifest's version string
    bump_part,        \* stage4.run: args.bump
    new_version,      \* result of bump_version(current_version, bump_part)
    next_dev,         \* result of _next_dev_version(...)
    vpc,              \* position in the version computation
    repo,             \* the package repository and its remote, as git sees them
    calls,            \* the _run_git calls of the last operation, in order
    last,             \* the last operation: its arguments and how it ended
    prev              \* the operation right before it, if nothing came between

versionVars == <<current_version, bump_part, new_version, next_dev, vpc>>
gitVars == <<repo, calls, last, prev>>
vars == <<mode, versionVars, gitVars>>

----------------------------------------------------------------------------
(* Bounds of the model. *)

\* release components and dev numbers are drawn from 0..MaxNum and BigNums
MaxNum == 1

\* numbers beyond MaxNum that make a decimal carry happen (9 -> 10, 99 -> 100)
BigNums == {9, 99}

\* the local branch holds at most MaxCommits commits
MaxCommits == 3
MaxPatch == 2
MaxAhead == 2

----------------------------------------------------------------------------
(* Text: a string is a sequence of one-character strings. *)

Digits == <<"0", "1", "2", "3", "4", "5", "6", "7", "8", "9">>

IsDigit(c) == \E i \in 1..10 : Digits[i] = c

DigitVal(c) == (CHOOSE i \in 1..10 : Digits[i] = c) - 1

\* Python int(s) of a non-empty string of decimal digits
RECURSIVE StrToInt(_)
StrToInt(s) ==
    IF s = <<>> THEN 0
    ELSE StrToInt(SubSeq(s, 1, Len(s) - 1)) * 10 + DigitVal(s[Len(s)])

\* Python str(n) / f"{n}" of a non-negative integer
RECURSIVE IntToStr(_)
IntToStr(n) ==
    IF n < 10 THEN <<Digits[n + 1]>>
    ELSE IntToStr(n \div 10) \o <<Digits[(n % 10) + 1]>>

Min(S) == CHOOSE x \in S : \A y \in S : x <= y

\* the positions of the "." characters of s
DotsOf(s) == {i \in 1..Len(s) : s[i] = "."}

\* s.split("."): the pieces of s between its dots
RECURSIVE SplitDots(_)
SplitDots(s) ==
    IF DotsOf(s) = {} THEN <<s>>
    ELSE LET d == Min(DotsOf(s))
         IN  <<SubSeq(s, 1, d - 1)>> \o SplitDots(SubSeq(s, d + 1, Len(s)))

\* s[i..j-1] is [0-9]* (and [0-9]+ when i < j)
AllDigits(s, i, j) == \A k \in i..(j - 1) : IsDigit(s[k])

\* w occurs in s at position i
LitAt(s, i, w) ==
    /\ i + Len(w) - 1 <= Len(s)
    /\ SubSeq(s, i, i + Len(w) - 1) = w

----------------------------------------------------------------------------
(* packaging.version.Version: the PEP 440 pattern                          *)
(*   v? release pre? post? dev?                                            *)
(* restricted to the characters of the model (digits . c d e r v x): with  *)
(* them no epoch ("!"), no local part ("+"), no "-" or "_" separator and   *)
(* none of the labels a, b, alpha, beta, pre, preview, post can be         *)
(* written, so the pattern below is the whole of PEP 440 on these strings. *)

PreLabels == {<<"r", "c">>, <<"c">>}
PostLabels == {<<"r", "e", "v">>, <<"r">>}
DevLabels == {<<"d", "e", "v">>}

\* after an optional leading "v"
VPrefixEnds(s) == {1} \cup (IF Len(s) >= 1 /\ s[1] = "v" THEN {2} ELSE {})

\* s[i..j-1] matches [0-9]+(\.[0-9]+)*
IsRelease(s, i, j) ==
    /\ i < j
    /\ IsDigit(s[i])
    /\ IsDigit(s[j - 1])
    /\ \A k \in i..(j - 1) :
          \/ IsDigit(s[k])
          \/ (s[k] = "." /\ IsDigit(s[k - 1]) /\ IsDigit(s[k + 1]))

ReleaseEnds(s, i) == {j \in (i + 1)..(Len(s) + 1) : IsRelease(s, i, j)}

\* after an optional separator at i
OptDot(s, i) == {i} \cup (IF i <= Len(s) /\ s[i] = "." THEN {i + 1} ELSE {})

\* the ends j of a match of  \.?(label)\.?[0-9]*  starting at i
SegEnds(s, i, labels) ==
    {j \in i..(Len(s) + 1) :
        \E a \in OptDot(s, i), lab \in labels :
            /\ LitAt(s, a, lab)
            /\ \E b \in OptDot(s, a + Len(lab)) : b <= j /\ AllDigits(s, b, j)}

OptSegEnds(s, i, labels) == {i} \cup SegEnds(s, i, labels)

\* every way the pattern matches the whole of s: where the release starts
\* (rel) and ends (pre), where the post segment and the dev segment start
VersionMatches(s) ==
    UNION {UNION {UNION {
        {[rel |-> a, pre |-> b, post |-> p, dev |-> c] :
            c \in {d \in OptSegEnds(s, p, PostLabels) :
                      (Len(s) + 1) \in OptSegEnds(s, d, DevLabels)}} :
        p \in OptSegEnds(s, b, PreLabels)} :
        b \in ReleaseEnds(s, a)} :
        a \in VPrefixEnds(s)}

\* the digits that end the segment s[i..], "" when it has none
TrailingDigits(s, i) ==
    LET b == Min({k \in i..(Len(s) + 1) : AllDigits(s, k, Len(s) + 1)})
    IN  SubSeq(s, b, Len(s))

RECURSIVE MapInt(_)
MapInt(parts) ==
    IF parts = <<>> THEN <<>>
    ELSE <<StrToInt(Head(parts))>> \o MapInt(Tail(parts))

\* Version(s): valid = FALSE stands for InvalidVersion being raised;
\* release is v.release, is_dev is (v.dev is not None), dev is v.dev
Version(s) ==
    IF VersionMatches(s) = {}
    THEN [valid |-> FALSE, release |-> <<>>, is_dev |-> FALSE, dev |-> 0]
    ELSE LET m == CHOOSE m \in VersionMatches(s) : TRUE
             digits == TrailingDigits(s, m.dev)
         IN  [valid |-> TRUE,
              release |-> MapInt(SplitDots(SubSeq(s, m.rel, m.pre - 1))),
              is_dev |-> m.dev <= Len(s),
              dev |-> IF m.dev <= Len(s) /\ digits # <<>>
                      THEN StrToInt(digits) ELSE 0]

----------------------------------------------------------------------------
(* The version algebra of stage4.py. A result is the returned string, or   *)
(* the exception raised.                                                   *)

Returned(v) == [raised |-> "", value |-> v]
Raised(e) == [raised |-> e, value |-> <<>>]

Dot == <<".">>
DotDev == <<".", "d", "e", "v">>

\* _DEV_RE.match(s): ^(?P<prefix>.*?)(?P<dev>\.dev(?P<num>\d+))?$
\* the lazy prefix is the shortest one after which the rest is empty or
\* ".dev" and digits; num = <<>> stands for None
DevReMatch(s) ==
    LET ks == {k \in 0..Len(s) :
                  \/ k = Len(s)
                  \/ /\ LitAt(s, k + 1, DotDev)
                     /\ k + 5 <= Len(s)
                     /\ AllDigits(s, k + 5, Len(s) + 1)}
    IN  IF ks = {}
        THEN [matched |-> FALSE, prefix |-> <<>>, num |-> <<>>]
        ELSE [matched |-> TRUE,
              prefix |-> SubSeq(s, 1, Min(ks)),
              num |-> SubSeq(s, Min(ks) + 5, Len(s))]

\* bump_dev refusing a version without suffix
bump_dev_needs_suffix(version_str) ==
    IF ~Version(version_str).valid THEN Raised("ValueError")
    ELSE LET m == DevReMatch(version_str)
         IN  IF ~m.matched \/ m.num = <<>> THEN Raised("ValueError")
             ELSE Returned(m.prefix \o DotDev \o IntToStr(StrToInt(m.num) + 1))

\* bump_dev leaving N as it is
bump_dev_same_n(version_str) ==
    IF ~Version(version_str).valid THEN Raised("ValueError")
    ELSE LET m == DevReMatch(version_str)
         IN  IF ~m.matched THEN Raised("ValueError")
             ELSE LET num == IF m.num # <<>> THEN StrToInt(m.num) ELSE 0
                  IN  Returned(m.prefix \o DotDev \o IntToStr(num))

\* bump_dev without the Version(version_str) check
bump_dev_unchecked(version_str) ==
    LET m == DevReMatch(version_str)
        num == (IF m.num # <<>> THEN StrToInt(m.num) ELSE 0) + 1
    IN  Returned(m.prefix \o DotDev \o IntToStr(num))

bump_dev(version_str) ==
    IF ~Version(version_str).valid THEN Raised("ValueError")
    ELSE LET m == DevReMatch(version_str)
         IN  IF ~m.matched THEN Raised("ValueError")
             ELSE LET num == (IF m.num # <<>> THEN StrToInt(m.num) ELSE 0) + 1
                  IN  Returned(m.prefix \o DotDev \o IntToStr(num))

\* list(v.release) + [0, 0], first three
Release3(v) == SubSeq(v.release \o <<0, 0>>, 1, 3)

\* f"{major}.{minor}.{patch}"
FormatRelease(major, minor, patch) ==
    IntToStr(major) \o Dot \o IntToStr(minor) \o Dot \o IntToStr(patch)

\* bump_semver whose minor bump keeps the patch component
bump_semver_keeps_patch(version_str, part) ==
    LET v == Version(version_str)
        major == Release3(v)[1]
        minor == Release3(v)[2]
        patch == Release3(v)[3]
    IN  IF ~v.valid THEN Raised("ValueError")
        ELSE IF v.is_dev /\ part = "patch"
             THEN Returned(FormatRelease(major, minor, patch))
        ELSE IF part = "patch"
             THEN Returned(FormatRelease(major, minor, patch + 1))
        ELSE IF part = "minor"
             THEN Returned(FormatRelease(major, minor + 1, patch))
        ELSE IF part = "major"
             THEN Returned(FormatRelease(major + 1, 0, 0))
        ELSE Raised("ValueError")

\* bump_semver without the "release the current dev cycle" case
bump_semver_always_increments(version_str, part) ==
    LET v == Version(version_str)
        major == Release3(v)[1]
        minor == Release3(v)[2]
        patch == Release3(v)[3]
    IN  IF ~v.valid THEN Raised("ValueError")
        ELSE IF part = "patch"
             THEN Returned(FormatRelease(major, minor, patch + 1))
        ELSE IF part = "minor"
             THEN Returned(FormatRelease(major, minor + 1, 0))
        ELSE IF part = "major"
             THEN Returned(FormatRelease(major + 1, 0, 0))
        ELSE Raised("ValueError")

bump_semver(version_str, part) ==
    LET v == Version(version_str)
        major == Release3(v)[1]
        minor == Release3(v)[2]
        patch == Release3(v)[3]
    IN  IF ~v.valid THEN Raised("ValueError")
        ELSE IF v.is_dev /\ part = "patch"
             THEN Returned(FormatRelease(major, minor, patch))
        ELSE IF part = "patch"
             THEN Returned(FormatRelease(major, minor, patch + 1))
        ELSE IF part = "minor"
             THEN Returned(FormatRelease(major, minor + 1, 0))
        ELSE IF part = "major"
             THEN Returned(FormatRelease(major + 1, 0, 0))
        ELSE Raised("ValueError")

bump_version(version_str, part) ==
    IF part = "dev" THEN bump_dev(version_str)
    ELSE bump_semver(version_str, part)

\* _next_dev_version opening the cycle at .dev1
_next_dev_version_dev1(release_version) ==
    LET v == Version(release_version)
    IN  IF ~v.valid THEN Raised("ValueError")
        ELSE IF v.is_dev THEN bump_dev(release_version)
        ELSE Returned(FormatRelease(Release3(v)[1], Release3(v)[2],
                                    Release3(v)[3] + 1)
                      \o DotDev \o <<"1">>)

\* _next_dev_version opening the cycle on the released patch number
_next_dev_version_same_patch(release_version) ==
    LET v == Version(release_version)
    IN  IF ~v.valid THEN Raised("ValueError")
        ELSE IF v.is_dev THEN bump_dev(release_version)
        ELSE Returned(FormatRelease(Release3(v)[1], Release3(v)[2],
                                    Release3(v)[3])
                      \o DotDev \o <<"0">>)

_next_dev_version(release_version) ==
    LET v == Version(release_version)
    IN  IF ~v.valid THEN Raised("ValueError")
        ELSE IF v.is_dev THEN bump_dev(release_version)
        ELSE Returned(FormatRelease(Release3(v)[1], Release3(v)[2],
                                    Release3(v)[3] + 1)
                      \o DotDev \o <<"0">>)

----------------------------------------------------------------------------
(* stage6.py and stage4_prepare.py carry their own copies of the version   *)
(* functions.                                                              *)

\* ".".join(str(x) for x in release)
RECURSIVE JoinDots(_)
JoinDots(release) ==
    IF Len(release) = 1 THEN IntToStr(release[1])
    ELSE IntToStr(release[1]) \o Dot \o JoinDots(Tail(release))

\* str(v).split(".dev")[0] of a dev version: Version.__str__ writes the
\* release numbers in decimal, a pre-release as rcN and a post-release as
\* .postN (a missing N is 0), and drops a leading "v"
StrBeforeDev(s) ==
    LET m == CHOOSE m \in VersionMatches(s) : TRUE
        pre == SubSeq(s, m.pre, m.post - 1)
        post == SubSeq(s, m.post, m.dev - 1)
        number(seg) == IntToStr(StrToInt(TrailingDigits(seg, 1)))
    IN  JoinDots(Version(s).release)
        \o (IF pre = <<>> THEN <<>> ELSE <<"r", "c">> \o number(pre))
        \o (IF post = <<>> THEN <<>>
            ELSE <<".", "p", "o", "s", "t">> \o number(post))

\* stage6._next_dev_version
stage6_next_dev_version(release_version) ==
    LET v == Version(release_version)
    IN  IF ~v.valid THEN Raised("ValueError")
        ELSE IF v.is_dev
             THEN Returned(StrBeforeDev(release_version) \o DotDev
                           \o IntToStr(v.dev + 1))
        ELSE Returned(FormatRelease(Release3(v)[1], Release3(v)[2],
                                    Release3(v)[3] + 1)
                      \o DotDev \o <<"0">>)

\* stage4_prepare.bump_dev
stage4_prepare_bump_dev(version_str) ==
    IF ~Version(version_str).valid THEN Raised("ValueError")
    ELSE LET m == DevReMatch(version_str)
         IN  IF ~m.matched THEN Raised("ValueError")
             ELSE LET num == (IF m.num # <<>> THEN StrToInt(m.num) ELSE 0) + 1
                  IN  Returned(m.prefix \o DotDev \o IntToStr(num))

\* stage4_prepare.bump_semver
stage4_prepare_bump_semver(version_str, part) ==
    LET v == Version(version_str)
        major == Release3(v)[1]
        minor == Release3(v)[2]
        patch == Release3(v)[3]
    IN  IF ~v.valid THEN Raised("ValueError")
        ELSE IF v.is_dev /\ part = "patch"
             THEN Returned(FormatRelease(major, minor, patch))
        ELSE IF part = "patch"
             THEN Returned(FormatRelease(major, minor, patch + 1))
        ELSE IF part = "minor"
             THEN Returned(FormatRelease(major, minor + 1, 0))
        ELSE IF part = "major"
             THEN Returned(FormatRelease(major + 1, 0, 0))
        ELSE Raised("ValueError")

\* stage4_prepare.bump_version
stage4_prepare_bump_version(version_str, part) ==
    IF part = "dev" THEN stage4_prepare_bump_dev(version_str)
    ELSE stage4_prepare_bump_semver(version_str, part)

----------------------------------------------------------------------------
(* The version strings a manifest may hold. *)

Nums == (0..MaxNum) \cup BigNums

\* decimal numerals, one of them written with a leading zero
NumStrs == {IntToStr(n) : n \in Nums} \cup {<<"0">> \o IntToStr(MaxNum)}

SmallNumStrs == {IntToStr(n) : n \in 0..MaxNum}

\* MAJOR.MINOR.PATCH and MAJOR.MINOR.PATCH.devN
ShapedVersions ==
    {a \o Dot \o b \o Dot \o c \o suffix :
        a \in NumStrs, b \in NumStrs, c \in NumStrs,
        suffix \in {<<>>} \cup {DotDev \o n : n \in NumStrs}}

\* releases of one, two, three and four components
SmallReleases ==
    SmallNumStrs
    \cup {a \o Dot \o b : a \in SmallNumStrs, b \in SmallNumStrs}
    \cup {a \o Dot \o b \o Dot \o c :
             a \in SmallNumStrs, b \in SmallNumStrs, c \in SmallNumStrs}
    \cup {a \o Dot \o b \o Dot \o c \o Dot \o d :
             a \in SmallNumStrs, b \in SmallNumStrs, c \in SmallNumStrs,
             d \in SmallNumStrs}

Suffixes ==
    {<<>>,
     <<".", "d", "e", "v", "1">>,
     <<".", "d", "e", "v">>,
     <<"d", "e", "v", "1">>,
     <<".", "d", "e", "v", ".", "1">>,
     <<"r", "c", "1">>,
     <<".", "r", "c", "1", ".", "d", "e", "v", "1">>,
     <<"c">>,
     <<".", "r", "1">>,
     <<"r", "e", "v">>,
     <<".">>,
     <<"x">>,
     <<".", "d", "e", "v", "1", "x">>,
     <<".", "d", "e", "v", "x">>,
     <<".", ".", "1">>}

OtherVersions ==
    {prefix \o r \o suffix :
        prefix \in {<<>>, <<"v">>}, r \in SmallReleases \cup {<<>>},
        suffix \in Suffixes}

VersionInputs == ShapedVersions \cup OtherVersions

BumpParts == {"patch", "minor", "major", "dev"}

Unset == [raised |-> "unset", value |-> <<>>]

\* no operation of the git layer has run
NoOperation ==
    [op |-> "none", push |-> FALSE, dry_run |-> FALSE, outcome |-> "none",
     head_before |-> 0]

\* a repository in which nothing was done and nothing fails
CleanRepo ==
    [worktree |-> "clean", staged |-> FALSE, head |-> 0,
     remote_branch |-> FALSE, remote_head |-> 0, upstream |-> FALSE,
     add_fault |-> FALSE, commit_fault |-> "none", push_fault |-> "none"]

----------------------------------------------------------------------------
(* The state machine of the version computation (stage4.bump_package). *)

VersionInit ==
    /\ mode = "version"
    /\ current_version \in VersionInputs
    /\ bump_part = ""
    /\ new_version = Unset
    /\ next_dev = Unset
    /\ vpc = "start"
    /\ repo = CleanRepo
    /\ calls = <<>>
    /\ last = NoOperation
    /\ prev = NoOperation

\* bump_package: new_version = bump_version(current_version, bump_part)
BumpVersion(part) ==
    /\ mode = "version"
    /\ vpc = "start"
    /\ bump_part' = part
    /\ new_version' = bump_version(current_version, part)
    /\ vpc' = "bumped"
    /\ UNCHANGED <<mode, current_version, next_dev, gitVars>>

\* bump_package, post-release: next_dev = _next_dev_version(new_version)
StartDevCycle ==
    /\ mode = "version"
    /\ vpc = "bumped"
    /\ new_version.raised = ""
    /\ bump_part # "dev"
    /\ next_dev' = _next_dev_version(new_version.value)
    /\ vpc' = "cycle"
    /\ UNCHANGED <<mode, current_version, bump_part, new_version, gitVars>>

\* _next_dev_version applied to the manifest's version
NextDevVersion ==
    /\ mode = "version"
    /\ vpc = "start"
    /\ next_dev' = _next_dev_version(current_version)
    /\ vpc' = "next_dev"
    /\ UNCHANGED <<mode, current_version, bump_part, new_version, gitVars>>

\* stage6: new_version = _next_dev_version(current_version)
Stage6NextDevVersion ==
    /\ mode = "version"
    /\ vpc = "start"
    /\ next_dev' = stage6_next_dev_version(current_version)
    /\ vpc' = "stage6_next_dev"
    /\ UNCHANGED <<mode, current_version, bump_part, new_version, gitVars>>

\* stage4_prepare: new_version = bump_version(current_version, bump_part)
PrepareBumpVersion(part) ==
    /\ mode = "version"
    /\ vpc = "start"
    /\ bump_part' = part
    /\ new_version' = stage4_prepare_bump_version(current_version, part)
    /\ vpc' = "prepared"
    /\ UNCHANGED <<mode, current_version, next_dev, gitVars>>

VersionNext ==
    \/ \E part \in BumpParts : BumpVersion(part)
    \/ StartDevCycle
    \/ NextDevVersion
    \/ Stage6NextDevVersion
    \/ \E part \in BumpParts : PrepareBumpVersion(part)

VersionSpec == VersionInit /\ [][VersionNext]_vars

----------------------------------------------------------------------------
(* What the claims speak of: the two shapes of a version string, read      *)
(* without the parser of the code.                                         *)

IsNumeral(t) == t # <<>> /\ AllDigits(t, 1, Len(t) + 1)

IsDevPart(t) ==
    /\ Len(t) >= 4
    /\ SubSeq(t, 1, 3) = <<"d", "e", "v">>
    /\ AllDigits(t, 4, Len(t) + 1)

\* MAJOR.MINOR.PATCH
IsMMP(s) ==
    /\ Len(SplitDots(s)) = 3
    /\ \A i \in 1..3 : IsNumeral(SplitDots(s)[i])

\* MAJOR.MINOR.PATCH.devN
IsMMPDev(s) ==
    /\ Len(SplitDots(s)) = 4
    /\ \A i \in 1..3 : IsNumeral(SplitDots(s)[i])
    /\ IsDevPart(SplitDots(s)[4])

MajorOf(s) == StrToInt(SplitDots(s)[1])
MinorOf(s) == StrToInt(SplitDots(s)[2])
PatchOf(s) == StrToInt(SplitDots(s)[3])
DevOf(s) == StrToInt(SubSeq(SplitDots(s)[4], 4, Len(SplitDots(s)[4])))

\* the text MAJOR.MINOR.PATCH of a string of either shape
MMPText(s) ==
    SplitDots(s)[1] \o Dot \o SplitDots(s)[2] \o Dot \o SplitDots(s)[3]

\* s is the version major.minor.patch, with no development suffix
IsVersion(s, major, minor, patch) ==
    /\ IsMMP(s)
    /\ MajorOf(s) = major
    /\ MinorOf(s) = minor
    /\ PatchOf(s) = patch

\* s is the version major.minor.patch.devN
IsDevVersion(s, major, minor, patch, n) ==
    /\ IsMMPDev(s)
    /\ MajorOf(s) = major
    /\ MinorOf(s) = minor
    /\ PatchOf(s) = patch
    /\ DevOf(s) = n

\* (a1, a2, a3) < (b1, b2, b3), numerically, highest component first
ReleaseLess(a, b) ==
    \/ MajorOf(a) < MajorOf(b)
    \/ MajorOf(a) = MajorOf(b) /\ MinorOf(a) < MinorOf(b)
    \/ MajorOf(a) = MajorOf(b) /\ MinorOf(a) = MinorOf(b)
       /\ PatchOf(a) < PatchOf(b)

Bumped == mode = "version" /\ vpc \in {"bumped", "cycle"}

----------------------------------------------------------------------------
(* C1: for every version M.m.p or M.m.p.devN and kind patch, minor or      *)
(* major, except a suffixed version with kind patch, bump_version returns  *)
(* a version without suffix in which the requested component is one more   *)
(* and the lower components are zero.                                      *)
C1_BumpIncrements ==
    (/\ Bumped
     /\ IsMMP(current_version) \/ IsMMPDev(current_version)
     /\ bump_part \in {"patch", "minor", "major"}
     /\ ~(IsMMPDev(current_version) /\ bump_part = "patch"))
    => /\ new_version.raised = ""
       /\ bump_part = "patch" =>
            IsVersion(new_version.value, MajorOf(current_version),
                      MinorOf(current_version), PatchOf(current_version) + 1)
       /\ bump_part = "minor" =>
            IsVersion(new_version.value, MajorOf(current_version),
                      MinorOf(current_version) + 1, 0)
       /\ bump_part = "major" =>
            IsVersion(new_version.value, MajorOf(current_version) + 1, 0, 0)

C1_Witness ==
    /\ Bumped
    /\ IsMMPDev(current_version)
    /\ bump_part = "minor"
    /\ PatchOf(current_version) > 0
    /\ MinorOf(current_version) = 9
    /\ new_version.raised = ""

C3_DevWithoutSuffixRaises ==
    (Bumped /\ IsMMP(current_version) /\ bump_part = "dev")
    => new_version.raised # ""

(* C3, amended: bump_version(v, dev) on a version M.m.p without            *)
(* development suffix raises nothing and returns M.m.p.dev1.               *)
C3_DevWithoutSuffixStartsDev1 ==
    (Bumped /\ IsMMP(current_version) /\ bump_part = "dev")
    => new_version = Returned(current_version \o DotDev \o <<"1">>)

C3_Witness ==
    /\ Bumped
    /\ IsMMP(current_version)
    /\ bump_part = "dev"
    /\ IsDevVersion(new_version.value, 1, 9, 99, 1)

(* C4: for every version M.m.p.devN, bump_version(v, dev) returns          *)
(* M.m.p.dev(N+1): only N changes.                                         *)
C4_DevIncrementsN ==
    (Bumped /\ IsMMPDev(current_version) /\ bump_part = "dev")
    => /\ new_version.raised = ""
       /\ IsDevVersion(new_version.value, MajorOf(current_version),
                       MinorOf(current_version), PatchOf(current_version),
                       DevOf(current_version) + 1)
       /\ MMPText(new_version.value) = MMPText(current_version)

C4_Witness ==
    /\ Bumped
    /\ IsMMPDev(current_version)
    /\ bump_part = "dev"
    /\ DevOf(current_version) = 9
    /\ DevOf(new_version.value) = 10

(* C5: _next_dev_version(r) returns M.m.(p+1).dev0 when r = M.m.p and      *)
(* M.m.p.dev(N+1) when r = M.m.p.devN.                                     *)
C5_NextDevVersion ==
    (mode = "version" /\ vpc = "next_dev")
    => /\ IsMMP(current_version) =>
            /\ next_dev.raised = ""
            /\ IsDevVersion(next_dev.value, MajorOf(current_version),
                            MinorOf(current_version),
                            PatchOf(current_version) + 1, 0)
       /\ IsMMPDev(current_version) =>
            /\ next_dev.raised = ""
            /\ IsDevVersion(next_dev.value, MajorOf(current_version),
                            MinorOf(current_version),
                            PatchOf(current_version),
                            DevOf(current_version) + 1)

C5_Witness ==
    /\ mode = "version"
    /\ vpc = "next_dev"
    /\ IsMMP(current_version)
    /\ PatchOf(current_version) = 99
    /\ IsDevVersion(next_dev.value, 0, 1, 100, 0)

\* s is of neither accepted shape
Unshaped(s) == ~IsMMP(s) /\ ~IsMMPDev(s)

\* s has a character no version has, or an empty release component
Malformed(s) ==
    \/ s = <<>>
    \/ \E i \in 1..Len(s) : s[i] = "x"
    \/ s[Len(s)] = "."
    \/ \E i \in 1..(Len(s) - 1) : s[i] = "." /\ s[i + 1] = "."
    \/ ~IsDigit(s[1]) /\ s[1] # "v"

C7_NextDevGreater ==
    (/\ mode = "version"
     /\ vpc = "cycle"
     /\ IsMMP(current_version) \/ IsMMPDev(current_version)
     /\ bump_part \in {"patch", "minor", "major"})
    => /\ next_dev.raised = ""
       /\ IsMMPDev(next_dev.value)
       /\ ReleaseLess(new_version.value, next_dev.value)

C7_Witness ==
    /\ mode = "version"
    /\ vpc = "cycle"
    /\ IsMMPDev(current_version)
    /\ bump_part = "patch"
    /\ PatchOf(new_version.value) = 99
    /\ PatchOf(next_dev.value) = 100

----------------------------------------------------------------------------
(* The git executable, as the operation layer sees it: a command run in a  *)
(* repository yields an exit status, its output, and the repository after. *)
(* Output is a sequence of words; "x in output" is modelled on words.      *)
(*                                                                         *)
(* repo.worktree: "clean", "modified" (tracked files changed) or           *)
(*   "untracked" (new files only); repo.staged: the index differs from     *)
(*   HEAD; repo.head / repo.remote_head: commits on the local / remote     *)
(*   branch; repo.upstream: the branch has an upstream configured;         *)
(*   the *_fault fields: what makes a command fail in this repository      *)
(*   (a locked index, a rejecting hook, no author identity, no network,   *)
(*   a remote that rejects the push).                                      *)

NothingToCommitClean ==
    <<"nothing", "to", "commit", ",", "working", "tree", "clean">>
NothingAddedUntracked ==
    <<"nothing", "added", "to", "commit", "but", "untracked", "files",
      "present">>
NoChangesAdded == <<"no", "changes", "added", "to", "commit">>
IdentityUnknown ==
    <<"fatal:", "unable", "to", "auto-detect", "email", "address">>
IndexLocked == <<"fatal:", "Unable", "to", "create", "index.lock">>
NoUpstreamBranch ==
    <<"fatal:", "The", "current", "branch", "dev_branch", "has", "no",
      "upstream", "branch.", "To", "push", "the", "current", "branch",
      "and", "set", "the", "remote", "as", "upstream", ",", "use", "git",
      "push", "--set-upstream", "origin", "dev_branch">>
Unreachable == <<"fatal:", "unable", "to", "access", "remote">>
PushRejected == <<"error:", "failed", "to", "push", "some", "refs">>
CommitSummary == <<"[dev_branch]", "1", "file", "changed">>

Exit(rc, out, err, r) ==
    [returncode |-> rc, stdout |-> out, stderr |-> err, repo |-> r]

\* git add -A
GitAdd(r) ==
    IF r.add_fault THEN Exit(128, <<>>, IndexLocked, r)
    ELSE Exit(0, <<>>, <<>>,
              [r EXCEPT !.staged = r.staged \/ r.worktree # "clean",
                        !.worktree = "clean"])

\* git commit -m <message>
GitCommit(r) ==
    IF r.commit_fault = "hook" THEN Exit(1, <<>>, <<>>, r)
    ELSE IF r.commit_fault = "identity" THEN Exit(128, <<>>, IdentityUnknown, r)
    ELSE IF ~r.staged
         THEN Exit(1,
                   CASE r.worktree = "clean" -> NothingToCommitClean
                     [] r.worktree = "untracked" -> NothingAddedUntracked
                     [] OTHER -> NoChangesAdded,
                   <<>>, r)
    ELSE Exit(0, CommitSummary, <<>>,
              IF "log" \in DOMAIN r
              THEN [r EXCEPT !.staged = FALSE, !.head = r.head + 1,
                             !.log = Append(@, r.version),
                             !.sources_log = Append(@, r.sources)]
              ELSE [r EXCEPT !.staged = FALSE, !.head = r.head + 1])

\* git push <remote>
GitPush(r) ==
    IF r.push_fault = "unreachable" THEN Exit(128, <<>>, Unreachable, r)
    ELSE IF ~r.upstream THEN Exit(128, <<>>, NoUpstreamBranch, r)
    ELSE IF r.push_fault = "rejected" THEN Exit(1, <<>>, PushRejected, r)
    ELSE Exit(0, <<>>, <<>>,
              [r EXCEPT !.remote_branch = TRUE, !.remote_head = r.head])

\* git push --set-upstream <remote> <branch>
GitPushSetUpstream(r) ==
    IF r.push_fault = "unreachable" THEN Exit(128, <<>>, Unreachable, r)
    ELSE IF r.push_fault = "rejected" THEN Exit(1, <<>>, PushRejected, r)
    ELSE Exit(0, <<>>, <<>>,
              [r EXCEPT !.remote_branch = TRUE, !.remote_head = r.head,
                        !.upstream = TRUE])

\* git rev-parse --abbrev-ref HEAD
GitCurrentBranch(r) == Exit(0, <<"dev_branch">>, <<>>, r)

TagAlreadyExists == <<"fatal:", "tag", "already", "exists">>
SrcRefspecNoMatch ==
    <<"error:", "src", "refspec", "does", "not", "match", "any">>
TagRejected == <<"!", "[rejected]", "(already", "exists)">>
LastCommitMessage == <<"release", "commit">>

\* a tag of the repository: its name and the commit it points to
Tag(name, commit) == [name |-> name, commit |-> commit]

TagNamesOf(tags) == {t.name : t \in tags}

\* git tag -a <tag> -m <message>
GitTagA(r, tag) ==
    IF tag \in TagNamesOf(r.tags)
    THEN Exit(128, <<>>, TagAlreadyExists, r)
    ELSE IF r.commit_fault = "identity"
    THEN Exit(128, <<>>, IdentityUnknown, r)
    ELSE Exit(0, <<>>, <<>>,
              [r EXCEPT !.tags = r.tags \cup {Tag(tag, r.head)}])

\* git tag -l <tag>
GitTagL(r, tag) ==
    Exit(0, IF tag \in TagNamesOf(r.tags) THEN <<tag>> ELSE <<>>, <<>>, r)

\* git push <remote> <tag>
GitPushTag(r, tag) ==
    IF r.push_fault = "unreachable" THEN Exit(128, <<>>, Unreachable, r)
    ELSE IF tag \notin TagNamesOf(r.tags)
    THEN Exit(1, <<>>, SrcRefspecNoMatch, r)
    ELSE IF \E t \in r.tags : t.name = tag /\ t \in r.remote_tags
    THEN Exit(0, <<>>, <<>>, r)
    ELSE IF tag \in TagNamesOf(r.remote_tags)
    THEN Exit(1, <<>>, TagRejected, r)
    ELSE IF r.push_fault = "rejected" THEN Exit(1, <<>>, PushRejected, r)
    ELSE Exit(0, <<>>, <<>>,
              [r EXCEPT !.remote_tags =
                  r.remote_tags \cup {t \in r.tags : t.name = tag}])

\* git log -1 --pretty=%B
GitLogLast(r) == Exit(0, LastCommitMessage, <<>>, r)

NoNamesFound == <<"fatal:", "No", "names", "found">>

\* git describe --tags --abbrev=0: the most recent tag
GitDescribe(r) ==
    IF r.tags = {} THEN Exit(128, <<>>, NoNamesFound, r)
    ELSE Exit(0,
              <<(CHOOSE t \in r.tags :
                    \A u \in r.tags : u.commit <= t.commit).name>>,
              <<>>, r)

\* git rev-parse HEAD
GitRevParseHead(r) == Exit(0, <<r.head>>, <<>>, r)

\* git checkout <commit> -- pyproject.toml: the file is as in that commit
GitCheckoutFile(r, commit) ==
    Exit(0, <<>>, <<>>,
         IF "log" \in DOMAIN r
         THEN [r EXCEPT !.version = r.log[commit],
                        !.sources = r.sources_log[commit]]
         ELSE r)

UnknownRevision == <<"fatal:", "ambiguous", "argument">>

\* git rev-list --left-right --count <branch>...<remote_ref>: it fails
\* when the remote ref does not exist; otherwise it prints r.counters
\* numbers on one line, as text, the first two being the commits only in
\* the branch and only in the remote ref
GitRevListCount(r) ==
    IF ~r.remote_ref THEN Exit(128, <<>>, UnknownRevision, r)
    ELSE Exit(0,
              CASE r.counters = 0 -> <<>>
                [] r.counters = 1 -> IntToStr(r.ahead) \o <<"\n">>
                [] r.counters = 2 ->
                     IntToStr(r.ahead) \o <<"\t">> \o IntToStr(r.behind)
                     \o <<"\n">>
                [] OTHER ->
                     IntToStr(r.ahead) \o <<"\t">> \o IntToStr(r.behind)
                     \o <<"\t">> \o IntToStr(r.ahead) \o <<"\n">>,
              <<>>, r)

\* git status --porcelain: one line for each change of the working tree
GitStatus(r) ==
    Exit(0,
         IF r.worktree = "clean" /\ ~r.staged THEN <<>>
         ELSE <<"M", "file">>,
         <<>>, r)

\* git diff, git diff --stat
GitDiff(r) ==
    Exit(0, IF r.worktree = "modified" THEN <<"file", "|", "1", "+">> ELSE <<>>,
         <<>>, r)

\* git rev-parse --verify <remote>/<branch>
GitVerifyRemoteBranch(r) ==
    IF r.remote_branch THEN Exit(0, <<"commit">>, <<>>, r)
    ELSE Exit(128, <<>>, <<"fatal:", "Needed", "a", "single", "revision">>, r)

\* git rev-list --count <remote>/<branch>..HEAD
GitRevListAhead(r) ==
    Exit(0,
         IntToStr(IF r.head > r.remote_head THEN r.head - r.remote_head
                  ELSE 0),
         <<>>, r)

\* the names git gives the entries of the stash stack, the newest first
StashRefs ==
    <<"stash@{0}", "stash@{1}", "stash@{2}", "stash@{3}", "stash@{4}">>

NoLocalChanges == <<"No", "local", "changes", "to", "save">>
NoStashEntries == <<"No", "stash", "entries", "found.">>

\* git stash push --include-untracked -m <message>: it refuses a tree with
\* unmerged paths; with nothing to save it prints a note, creates no entry
\* and exits 0; otherwise the changes of the working tree become the newest
\* entry, described "On <branch>: <message>", and the working tree is clean
GitStashPush(r, message) ==
    IF r.unmerged THEN Exit(1, <<>>, <<"file:", "needs", "merge">>, r)
    ELSE IF r.changes = {} THEN Exit(0, NoLocalChanges, <<>>, r)
    ELSE Exit(0, <<"Saved", "working", "directory">>, <<>>,
              [r EXCEPT !.stash = <<[message |-> <<"On", r.branch, ":">>
                                                   \o message,
                                      changes |-> r.changes]>> \o @,
                        !.changes = {}])

\* git stash pop: with no entry it fails; it applies the newest entry
\* whoever made it; when the entry does not apply cleanly on the checked-out
\* files, the paths are left unmerged and the entry stays in the stack;
\* otherwise the entry is removed
GitStashPop(r) ==
    IF r.stash = <<>> THEN Exit(1, <<>>, NoStashEntries, r)
    ELSE IF r.conflicting /\ r.branch = "dev_branch"
    THEN Exit(1, <<"CONFLICT", "(content)">>, <<>>,
              [r EXCEPT !.unmerged = TRUE])
    ELSE Exit(0, <<"Dropped", StashRefs[1]>>, <<>>,
              [r EXCEPT !.changes = @ \cup Head(r.stash).changes,
                        !.stash = Tail(@)])

\* git diff --name-only --diff-filter=U: the unmerged paths
GitDiffUnmerged(r) ==
    Exit(0, IF r.unmerged THEN <<"file", "\n">> ELSE <<>>, <<>>, r)

\* the text of git stash list: "stash@{i}: <description>", a line an entry
RECURSIVE StashLines(_, _)
StashLines(stash, i) ==
    IF stash = <<>> THEN <<>>
    ELSE <<StashRefs[i], ":">> \o Head(stash).message \o <<"\n">>
         \o StashLines(Tail(stash), i + 1)

GitStashList(r) == Exit(0, StashLines(r.stash, 1), <<>>, r)

\* git stash drop <ref>: removes the entry of that name
GitStashDrop(r, ref) ==
    IF \E i \in 1..Len(r.stash) : StashRefs[i] = ref
    THEN LET i == CHOOSE i \in 1..Len(r.stash) : StashRefs[i] = ref
         IN  Exit(0, <<"Dropped", ref>>, <<>>,
                  [r EXCEPT !.stash = SubSeq(@, 1, i - 1)
                                      \o SubSeq(@, i + 1, Len(@))])
    ELSE Exit(1, <<>>, <<"error:", ref, "is", "not", "a", "valid",
                         "reference">>, r)

\* git checkout -B <branch> <start_point>: the branch is created or reset
\* at the start point and checked out; local changes are carried along
GitCheckoutBranch(r, branch) ==
    Exit(0, <<>>, <<>>, [r EXCEPT !.branch = branch])

\* the option --tags of git push
AllTags == <<"--tags">>

\* git push origin --tags: every local tag the remote does not have is
\* created there; a tag the remote has at another commit is rejected
GitPushTags(r) ==
    IF r.push_fault = "unreachable" THEN Exit(128, <<>>, Unreachable, r)
    ELSE IF r.push_fault = "rejected" THEN Exit(1, <<>>, PushRejected, r)
    ELSE Exit(IF \E t \in r.tags : /\ t \notin r.remote_tags
                                   /\ t.name \in TagNamesOf(r.remote_tags)
              THEN 1 ELSE 0,
              <<>>, <<>>,
              [r EXCEPT !.remote_tags =
                  r.remote_tags \cup
                      {t \in r.tags :
                          t.name \notin TagNamesOf(r.remote_tags)}])

\* A repository with branches, as stage 0 works on it. branch is the branch
\* checked out; local_dev, remote_branch, remote_base: refs/heads/dev_branch,
\* origin/dev_branch, origin/main exist; origin_head: refs/remotes/origin/HEAD
\* is set (to origin/master); ahead, behind: the commits dev_branch has and
\* origin/dev_branch has not, and the reverse; dev_tip: the commit dev_branch
\* points to; upstream: dev_branch has an upstream; changes, unmerged, stash
\* as for the stash commands; conflicting: the local changes touch a file
\* that the commit stage 0 moves to has differently; fetch_fault, push_fault:
\* the remote cannot be reached.
Branching(r) == "local_dev" \in DOMAIN r

LocalChangesOverwritten ==
    <<"error:", "Your", "local", "changes", "to", "the", "following",
      "files", "would", "be", "overwritten">>
NotACommit == <<"fatal:", "not", "a", "commit">>
NotPossibleToFastForward ==
    <<"fatal:", "Not", "possible", "to", "fast-forward,", "aborting.">>
AlreadyUpToDate == <<"Already", "up", "to", "date.">>

RefExists(r, ref) ==
    CASE ref = "origin/dev_branch" -> r.remote_branch
      [] ref = "origin/main" -> r.remote_base
      [] ref = "origin/master" -> r.origin_head
      [] ref \in {"dev_branch", "refs/heads/dev_branch"} -> r.local_dev
      [] ref = "main" -> TRUE
      [] OTHER -> FALSE

\* git fetch <remote>
GitFetch(r) ==
    IF r.fetch_fault THEN Exit(128, <<>>, Unreachable, r)
    ELSE Exit(0, <<>>, <<>>, r)

\* git rev-parse --verify <ref>, git show-ref --verify <ref>
GitVerifyRef(r, ref) ==
    IF RefExists(r, ref) THEN Exit(0, <<"commit">>, <<>>, r)
    ELSE Exit(128, <<>>, <<"fatal:", "Needed", "a", "single", "revision">>, r)

\* git refuses to switch when a local change would be overwritten or a
\* path is unmerged
SwitchRefused(r, branch) ==
    r.unmerged \/ (r.changes # {} /\ r.conflicting /\ r.branch # branch)

\* git checkout <branch>: local changes are carried along
GitCheckout(r, branch) ==
    IF ~RefExists(r, branch)
    THEN Exit(1, <<>>, <<"error:", "pathspec", "did", "not", "match">>, r)
    ELSE IF SwitchRefused(r, branch)
    THEN Exit(1, <<>>, LocalChangesOverwritten, r)
    ELSE Exit(0, <<>>, <<>>, [r EXCEPT !.branch = branch])

\* git checkout -B <branch> <start_point> in a repository with branches:
\* the branch is created, or reset, at the start point and checked out
GitCheckoutAt(r, branch, start_point) ==
    IF ~RefExists(r, start_point) THEN Exit(128, <<>>, NotACommit, r)
    ELSE IF SwitchRefused(r, branch)
    THEN Exit(1, <<>>, LocalChangesOverwritten, r)
    ELSE Exit(0, <<>>, <<>>,
              [r EXCEPT !.branch = branch, !.local_dev = TRUE,
                        !.dev_tip = start_point, !.ahead = 0, !.behind = 0])

\* git merge --ff-only <remote>/<branch>: nothing to do when the branch has
\* every commit of the target; refused when the branch has commits of its
\* own, or when a changed file would be overwritten; otherwise the branch
\* moves to the target
GitMergeFfOnly(r) ==
    IF r.branch # "dev_branch" THEN Exit(1, <<>>, LocalChangesOverwritten, r)
    ELSE IF r.behind = 0 THEN Exit(0, AlreadyUpToDate, <<>>, r)
    ELSE IF r.ahead > 0 THEN Exit(128, <<>>, NotPossibleToFastForward, r)
    ELSE IF r.changes # {} /\ r.conflicting
    THEN Exit(1, <<>>, LocalChangesOverwritten, r)
    ELSE Exit(0, <<"Fast-forward">>, <<>>,
              [r EXCEPT !.behind = 0, !.dev_tip = "origin/dev_branch"])

\* git symbolic-ref refs/remotes/<remote>/HEAD
GitSymbolicRef(r) ==
    IF r.origin_head
    THEN Exit(0, <<"refs", "/", "remotes", "/", "origin", "/", "master",
                   "\n">>, <<>>, r)
    ELSE Exit(128, <<>>, <<"fatal:", "ref", "is", "not", "a", "symbolic",
                           "ref">>, r)

\* git branch --set-upstream-to <remote>/<branch> <branch>
GitSetUpstreamTo(r) ==
    IF r.local_dev /\ r.remote_branch
    THEN Exit(0, <<>>, <<>>, [r EXCEPT !.upstream = TRUE])
    ELSE Exit(128, <<>>, <<"fatal:", "branch", "does", "not", "exist">>, r)

\* git rev-list --count <remote>/<branch>..HEAD in a repository with
\* branches; main has nothing that origin/main has not
GitRevListAheadOf(r, range) ==
    IF range = "origin/" \o r.branch \o "..HEAD"
       /\ RefExists(r, "origin/" \o r.branch)
    THEN Exit(0, IntToStr(IF r.branch = "dev_branch" THEN r.ahead ELSE 0),
              <<>>, r)
    ELSE Exit(128, <<>>, UnknownRevision, r)

\* git rev-list --left-right --count dev_branch...origin/dev_branch
GitRevListLeftRight(r) ==
    IF r.local_dev /\ r.remote_branch
    THEN Exit(0, IntToStr(r.ahead) \o <<"\t">> \o IntToStr(r.behind)
                 \o <<"\n">>, <<>>, r)
    ELSE Exit(128, <<>>, UnknownRevision, r)

\* git push <remote> in a repository with branches: main is up to date;
\* dev_branch needs an upstream, and the remote rejects a branch that lacks
\* commits of the remote branch
GitPushBranch(r) ==
    IF r.push_fault = "unreachable" THEN Exit(128, <<>>, Unreachable, r)
    ELSE IF r.branch # "dev_branch"
    THEN Exit(0, <<>>, <<"Everything", "up-to-date">>, r)
    ELSE IF ~r.upstream THEN Exit(128, <<>>, NoUpstreamBranch, r)
    ELSE IF r.behind > 0 THEN Exit(1, <<>>, PushRejected, r)
    ELSE Exit(0, <<>>, <<>>, [r EXCEPT !.remote_branch = TRUE, !.ahead = 0])

\* git push --set-upstream <remote> dev_branch in a repository with branches
GitPushSetUpstreamBranch(r) ==
    IF r.push_fault = "unreachable" THEN Exit(128, <<>>, Unreachable, r)
    ELSE IF ~r.local_dev THEN Exit(1, <<>>, SrcRefspecNoMatch, r)
    ELSE IF r.behind > 0 THEN Exit(1, <<>>, PushRejected, r)
    ELSE Exit(0, <<>>, <<>>,
              [r EXCEPT !.remote_branch = TRUE, !.ahead = 0,
                        !.upstream = TRUE])

\* git in a repository with branches
GitBranching(r, args) ==
    CASE args = <<"fetch", "origin">> -> GitFetch(r)
      [] Len(args) = 3 /\ args[1] \in {"rev-parse", "show-ref"}
         /\ args[2] = "--verify" ->
            GitVerifyRef(r, args[3])
      [] Len(args) = 2 /\ args[1] = "checkout" -> GitCheckout(r, args[2])
      [] Len(args) = 4 /\ args[1] = "checkout" ->
            GitCheckoutAt(r, args[3], args[4])
      [] Len(args) = 3 /\ args[1] = "merge" -> GitMergeFfOnly(r)
      [] Len(args) = 2 /\ args[1] = "symbolic-ref" -> GitSymbolicRef(r)
      [] Len(args) = 4 /\ args[1] = "branch" -> GitSetUpstreamTo(r)
      [] args = <<"status", "--porcelain">> ->
            Exit(0, IF r.changes = {} /\ ~r.unmerged THEN <<>>
                    ELSE <<"M", "file">>, <<>>, r)
      [] Len(args) = 5 /\ args[1] = "stash" -> GitStashPush(r, args[5])
      [] args = <<"stash", "pop">> -> GitStashPop(r)
      [] args = <<"stash", "list">> -> GitStashList(r)
      [] Len(args) = 3 /\ args[1] = "stash" -> GitStashDrop(r, args[3])
      [] Len(args) = 3 /\ args[1] = "diff" -> GitDiffUnmerged(r)
      [] args = <<"rev-parse", "--abbrev-ref", "HEAD">> ->
            Exit(0, <<r.branch>>, <<>>, r)
      [] Len(args) = 3 /\ args[1] = "rev-list" ->
            GitRevListAheadOf(r, args[3])
      [] Len(args) = 4 /\ args[1] = "rev-list" -> GitRevListLeftRight(r)
      [] args = <<"push", "origin">> -> GitPushBranch(r)
      [] Len(args) = 4 /\ args[1] = "push" -> GitPushSetUpstreamBranch(r)

\* A repository with a history, as stage 3 reads it: head is the number of
\* commits of the branch, tags the tags with the commit each points to,
\* touched whether the commits after the newest tag (the last commit when
\* there is no tag) change a file.
Historied(r) == "touched" \in DOMAIN r

DiffText == <<"diff", "--git", "a/file", "b/file", "\n">>

\* git rev-list <tag>..HEAD --count
GitRevListSince(r, revspec) ==
    IF \E t \in r.tags : revspec = t.name \o "..HEAD"
    THEN LET t == CHOOSE t \in r.tags : revspec = t.name \o "..HEAD"
         IN  Exit(0, IntToStr(r.head - t.commit) \o <<"\n">>, <<>>, r)
    ELSE Exit(128, <<>>, UnknownRevision, r)

\* git diff <revspec>: HEAD^ is unknown when HEAD has no parent
GitDiffSince(r, revspec) ==
    IF revspec = "HEAD^..HEAD"
    THEN IF r.head < 2 THEN Exit(128, <<>>, UnknownRevision, r)
         ELSE Exit(0, IF r.touched THEN DiffText ELSE <<>>, <<>>, r)
    ELSE IF \E t \in r.tags : revspec = t.name \o "..HEAD"
    THEN LET t == CHOOSE t \in r.tags : revspec = t.name \o "..HEAD"
         IN  Exit(0, IF r.head > t.commit /\ r.touched THEN DiffText
                     ELSE <<>>, <<>>, r)
    ELSE Exit(128, <<>>, UnknownRevision, r)

\* git in a repository with a history
GitHistoried(r, args) ==
    CASE args = <<"describe", "--tags", "--abbrev=0">> -> GitDescribe(r)
      [] Len(args) = 3 /\ args[1] = "rev-list" -> GitRevListSince(r, args[2])
      [] Len(args) = 2 /\ args[1] = "diff" -> GitDiffSince(r, args[2])
      [] Len(args) = 3 /\ args[1] = "rev-parse" ->
            IF args[3] \in TagNamesOf(r.tags)
            THEN Exit(0, <<"commit">>, <<>>, r)
            ELSE Exit(128, <<>>, UnknownRevision, r)

\* the fallback of _push_repo: push --set-upstream <remote> <branch>
fallback_cmd == <<"push", "--set-upstream", "origin", "dev_branch">>

Git(r, args) ==
    IF Branching(r) THEN GitBranching(r, args) ELSE
    IF Historied(r) THEN GitHistoried(r, args) ELSE
    CASE args = <<"add", "-A">> -> GitAdd(r)
      [] args = <<"commit", "-m">> -> GitCommit(r)
      [] args = <<"push", "origin">> -> GitPush(r)
      [] args = fallback_cmd -> GitPushSetUpstream(r)
      [] args = <<"rev-parse", "--abbrev-ref", "HEAD">> -> GitCurrentBranch(r)
      [] Len(args) = 4 /\ args[1] = "tag" /\ args[2] = "-a" ->
            GitTagA(r, args[3])
      [] Len(args) = 3 /\ args[1] = "tag" /\ args[2] = "-l" ->
            GitTagL(r, args[3])
      [] Len(args) = 3 /\ args[1] = "push" /\ args[2] = "origin" ->
            IF args[3] = AllTags THEN GitPushTags(r)
            ELSE GitPushTag(r, args[3])
      [] args = <<"log", "-1", "--pretty=%B">> -> GitLogLast(r)
      [] args = <<"describe", "--tags", "--abbrev=0">> -> GitDescribe(r)
      [] args = <<"rev-parse", "HEAD">> -> GitRevParseHead(r)
      [] Len(args) = 4 /\ args[1] = "checkout" /\ args[3] = "--" ->
            GitCheckoutFile(r, args[2])
      [] Len(args) = 4 /\ args[1] = "checkout" /\ args[3] # "--" ->
            GitCheckoutBranch(r, args[3])
      [] args = <<"add", "pyproject.toml">> -> GitAdd(r)
      [] Len(args) = 4 /\ args[1] = "rev-list" -> GitRevListCount(r)
      [] args = <<"status", "--porcelain">> -> GitStatus(r)
      [] args[1] = "diff" /\ Len(args) < 3 -> GitDiff(r)
      [] args = <<"diff", "--name-only", "--diff-filter=U">> ->
            GitDiffUnmerged(r)
      [] Len(args) = 5 /\ args[1] = "stash" /\ args[2] = "push" ->
            GitStashPush(r, args[5])
      [] args = <<"stash", "pop">> -> GitStashPop(r)
      [] args = <<"stash", "list">> -> GitStashList(r)
      [] Len(args) = 3 /\ args[1] = "stash" /\ args[2] = "drop" ->
            GitStashDrop(r, args[3])
      [] Len(args) = 3 /\ args[1] = "rev-parse" /\ args[2] = "--verify" ->
            GitVerifyRemoteBranch(r)
      [] args = <<"rev-list", "--count", "origin/dev_branch..HEAD">> ->
            GitRevListAhead(r)

----------------------------------------------------------------------------
(* git_utils.py *)

\* "needle in hay"
Contains(hay, needle) ==
    \E i \in 0..(Len(hay) - Len(needle)) :
        SubSeq(hay, i + 1, i + Len(needle)) = needle

\* subprocess.run(["git", *args], check=..., stdout=PIPE, stderr=PIPE if
\* capture): with check, a non-zero exit raises CalledProcessError; without
\* capture, stdout and stderr are None (<<>> here, captured = FALSE)
CompletedProcess(x, args, capture, check) ==
    [args |-> args,
     raised |-> check /\ x.returncode # 0,
     returncode |-> x.returncode,
     captured |-> capture,
     stdout |-> IF capture THEN x.stdout ELSE <<>>,
     stderr |-> IF capture THEN x.stderr ELSE <<>>,
     repo |-> x.repo]

SubprocessRun(r, args, capture, check) ==
    CompletedProcess(Git(r, args), args, capture, check)

\* _run_git with check=True
_run_git_checked(r, args, capture) == SubprocessRun(r, args, capture, TRUE)

_run_git(r, args, capture) == SubprocessRun(r, args, capture, FALSE)

\* what an operation leaves: how it ended, the repository, the calls made
Done(outcome, r, cs) == [outcome |-> outcome, repo |-> r, calls |-> cs]

\* the log entry of a call: the CompletedProcess without the repository
Call(p) ==
    [args |-> p.args, raised |-> p.raised, returncode |-> p.returncode,
     captured |-> p.captured, stdout |-> p.stdout, stderr |-> p.stderr]

\* how an operation ends at a call: the exception that leaves _run_git, a
\* GitError on a non-zero exit, or "" to go on
Failed(p) ==
    IF p.raised THEN "CalledProcessError"
    ELSE IF p.returncode # 0 THEN "GitError"
    ELSE ""

\* _push_repo retrying with --set-upstream after every failed push
_push_repo_retries_always(r) ==
    LET proc == _run_git(r, <<"push", "origin">>, TRUE)
        branch == _run_git(proc.repo,
                           <<"rev-parse", "--abbrev-ref", "HEAD">>, TRUE)
        fallback_proc == _run_git(branch.repo, fallback_cmd, TRUE)
    IN  IF proc.returncode = 0
        THEN Done("ok", proc.repo, <<Call(proc)>>)
        ELSE Done(IF Failed(fallback_proc) # ""
                  THEN Failed(fallback_proc) ELSE "ok",
                  fallback_proc.repo,
                  <<Call(proc), Call(branch), Call(fallback_proc)>>)

_push_repo(r) ==
    LET proc == _run_git(r, <<"push", "origin">>, TRUE)
        branch == _run_git(proc.repo,
                           <<"rev-parse", "--abbrev-ref", "HEAD">>, TRUE)
        fallback_proc == _run_git(branch.repo, fallback_cmd, TRUE)
    IN  IF proc.raised
        THEN Done("CalledProcessError", proc.repo, <<Call(proc)>>)
        ELSE IF proc.returncode = 0
        THEN Done("ok", proc.repo, <<Call(proc)>>)
        ELSE IF \/ Contains(proc.stderr, <<"set", "upstream">>)
                \/ Contains(proc.stderr, <<"--set-upstream">>)
                \/ Contains(proc.stderr, <<"have", "no", "upstream">>)
        THEN IF Failed(branch) # ""
             THEN Done(Failed(branch), branch.repo,
                       <<Call(proc), Call(branch)>>)
             ELSE Done(IF Failed(fallback_proc) # ""
                       THEN Failed(fallback_proc) ELSE "ok",
                       fallback_proc.repo,
                       <<Call(proc), Call(branch), Call(fallback_proc)>>)
        ELSE Done("GitError", proc.repo, <<Call(proc)>>)

\* commit_all returning at "nothing to commit", before the push
commit_all_returns_early(r, push, dry_run) ==
    LET add == _run_git(r, <<"add", "-A">>, FALSE)
        proc == _run_git(add.repo, <<"commit", "-m">>, TRUE)
        combined_output == proc.stdout \o proc.stderr
        pushed == _push_repo(proc.repo)
    IN  IF dry_run THEN Done("ok", r, <<>>)
        ELSE IF Failed(add) # ""
        THEN Done(Failed(add), add.repo, <<Call(add)>>)
        ELSE IF proc.raised
        THEN Done("CalledProcessError", proc.repo, <<Call(add), Call(proc)>>)
        ELSE IF /\ proc.returncode # 0
                /\ ~Contains(combined_output, <<"nothing", "to", "commit">>)
                /\ ~Contains(combined_output,
                             <<"nothing", "added", "to", "commit">>)
        THEN Done("GitError", proc.repo, <<Call(add), Call(proc)>>)
        ELSE IF push /\ proc.returncode = 0
        THEN Done(pushed.outcome, pushed.repo,
                  <<Call(add), Call(proc)>> \o pushed.calls)
        ELSE Done("ok", proc.repo, <<Call(add), Call(proc)>>)

\* commit_all raising on every non-zero exit of the commit
commit_all_strict(r, push, dry_run) ==
    LET add == _run_git(r, <<"add", "-A">>, FALSE)
        proc == _run_git(add.repo, <<"commit", "-m">>, TRUE)
        pushed == _push_repo(proc.repo)
    IN  IF dry_run THEN Done("ok", r, <<>>)
        ELSE IF Failed(add) # ""
        THEN Done(Failed(add), add.repo, <<Call(add)>>)
        ELSE IF Failed(proc) # ""
        THEN Done(Failed(proc), proc.repo, <<Call(add), Call(proc)>>)
        ELSE IF push
        THEN Done(pushed.outcome, pushed.repo,
                  <<Call(add), Call(proc)>> \o pushed.calls)
        ELSE Done("ok", proc.repo, <<Call(add), Call(proc)>>)

commit_all(r, push, dry_run) ==
    LET add == _run_git(r, <<"add", "-A">>, FALSE)
        proc == _run_git(add.repo, <<"commit", "-m">>, TRUE)
        combined_output == proc.stdout \o proc.stderr
        pushed == _push_repo(proc.repo)
    IN  IF dry_run THEN Done("ok", r, <<>>)
        ELSE IF Failed(add) # ""
        THEN Done(Failed(add), add.repo, <<Call(add)>>)
        ELSE IF proc.raised
        THEN Done("CalledProcessError", proc.repo, <<Call(add), Call(proc)>>)
        ELSE IF /\ proc.returncode # 0
                /\ ~Contains(combined_output, <<"nothing", "to", "commit">>)
                /\ ~Contains(combined_output,
                             <<"nothing", "added", "to", "commit">>)
        THEN Done("GitError", proc.repo, <<Call(add), Call(proc)>>)
        ELSE IF push
        THEN Done(pushed.outcome, pushed.repo,
                  <<Call(add), Call(proc)>> \o pushed.calls)
        ELSE Done("ok", proc.repo, <<Call(add), Call(proc)>>)

\* commit_and_tag creating the tag although the commit failed
commit_and_tag_tags_anyway(r, tag_name, push, dry_run) ==
    LET commit == _run_git(r, <<"commit", "-m">>, FALSE)
        tag == _run_git(commit.repo, <<"tag", "-a", tag_name, "-m">>, FALSE)
    IN  IF dry_run THEN Done("ok", r, <<>>)
        ELSE Done(IF Failed(commit) # "" THEN Failed(commit)
                  ELSE IF Failed(tag) # "" THEN Failed(tag) ELSE "ok",
                  tag.repo, <<Call(commit), Call(tag)>>)

\* commit_and_tag running its commands although dry_run is set
commit_and_tag_wet(r, tag_name, push, dry_run) ==
    LET commit == _run_git(r, <<"commit", "-m">>, FALSE)
        tag == _run_git(commit.repo, <<"tag", "-a", tag_name, "-m">>, FALSE)
    IN  IF Failed(commit) # ""
        THEN Done(Failed(commit), commit.repo, <<Call(commit)>>)
        ELSE Done(IF Failed(tag) # "" THEN Failed(tag) ELSE "ok",
                  tag.repo, <<Call(commit), Call(tag)>>)

commit_and_tag(r, tag_name, push, dry_run) ==
    LET commit == _run_git(r, <<"commit", "-m">>, FALSE)
        tag == _run_git(commit.repo, <<"tag", "-a", tag_name, "-m">>, FALSE)
        push_branch == _run_git(tag.repo, <<"push", "origin">>, FALSE)
        push_tag ==
            _run_git(push_branch.repo, <<"push", "origin", tag_name>>, FALSE)
    IN  IF dry_run THEN Done("ok", r, <<>>)
        ELSE IF Failed(commit) # ""
        THEN Done(Failed(commit), commit.repo, <<Call(commit)>>)
        ELSE IF Failed(tag) # ""
        THEN Done(Failed(tag), tag.repo, <<Call(commit), Call(tag)>>)
        ELSE IF ~push
        THEN Done("ok", tag.repo, <<Call(commit), Call(tag)>>)
        ELSE IF Failed(push_branch) # ""
        THEN Done(Failed(push_branch), push_branch.repo,
                  <<Call(commit), Call(tag), Call(push_branch)>>)
        ELSE Done(IF Failed(push_tag) # "" THEN Failed(push_tag) ELSE "ok",
                  push_tag.repo,
                  <<Call(commit), Call(tag), Call(push_branch),
                    Call(push_tag)>>)

----------------------------------------------------------------------------
(* stage5.py, stage5_tag.py *)

_tag_exists(r, tag) ==
    LET proc == _run_git(r, <<"tag", "-l", tag>>, TRUE)
    IN  [value |-> proc.stdout # <<>>, calls |-> <<Call(proc)>>]

_create_tag(r, tag, push, dry_run) ==
    LET proc == _run_git(r, <<"tag", "-a", tag, "-m">>, FALSE)
        push_proc == _run_git(proc.repo, <<"push", "origin", tag>>, FALSE)
    IN  IF dry_run THEN Done("ok", r, <<>>)
        ELSE IF Failed(proc) # ""
        THEN Done(Failed(proc), proc.repo, <<Call(proc)>>)
        ELSE IF ~push THEN Done("ok", proc.repo, <<Call(proc)>>)
        ELSE Done(IF Failed(push_proc) # "" THEN Failed(push_proc) ELSE "ok",
                  push_proc.repo, <<Call(proc), Call(push_proc)>>)

----------------------------------------------------------------------------
(* stage4.py: bump_package; the record r holds the package's tag message   *)
(* file (tag_message), whether it has a pyproject.toml with a version line *)
(* (pyproject), whether that file has workspace references in its          *)
(* [tool.uv.sources] (sources) and whether the configuration has a         *)
(* tag_prefix (has_prefix); log and sources_log are the version and the    *)
(* workspace references of pyproject.toml in each commit                   *)

tag_prefix == <<"v">>

\* cfg.get('tag_prefix', '')
cfg_get_tag_prefix(r) == IF r.has_prefix THEN tag_prefix ELSE <<>>

\* _clean_workspace_sources: the workspace references of [tool.uv.sources]
\* are removed from pyproject.toml
_clean_workspace_sources(r, dry_run) ==
    IF r.sources /\ ~dry_run THEN [r EXCEPT !.sources = FALSE] ELSE r

\* update_version_in_pyproject: the version line is rewritten
update_version_in_pyproject(r, version) ==
    [r EXCEPT !.version = version, !.worktree = "modified"]

\* _update_tag_in_prod_pyproject: the package's tag in prod/pyproject.toml
_update_tag_in_prod_pyproject(r, tag_name, dry_run) ==
    IF r.prod_tag # <<>> /\ r.prod_tag # tag_name /\ ~dry_run
    THEN [r EXCEPT !.prod_tag = tag_name]
    ELSE r

\* as bump_package_post_release, the next development version written to
\* pyproject.toml but not committed
bump_package_post_release_staged(r, bump_part_, tag_name, next_dev_, cs) ==
    LET checkout == _run_git(r, <<"checkout", r.head, "--",
                                  "pyproject.toml">>, FALSE)
        add == _run_git(update_version_in_pyproject(r, next_dev_.value),
                        <<"add", "pyproject.toml">>, FALSE)
    IN  IF bump_part_ = "dev"
        THEN Done("ok", _update_tag_in_prod_pyproject(r, tag_name, FALSE), cs)
        ELSE IF next_dev_.raised # ""
        THEN Done(next_dev_.raised, r, cs \o <<Call(checkout)>>)
        ELSE Done("ok",
                  _update_tag_in_prod_pyproject(add.repo, tag_name, FALSE),
                  cs \o <<Call(checkout), Call(add)>>)

\* bump_package after the release commit: the next development cycle is
\* started in the same branch and prod/pyproject.toml is updated
bump_package_post_release(r, bump_part_, tag_name, next_dev_, cs) ==
    LET checkout == _run_git(r, <<"checkout", r.head, "--",
                                  "pyproject.toml">>, FALSE)
        add == _run_git(update_version_in_pyproject(r, next_dev_.value),
                        <<"add", "pyproject.toml">>, FALSE)
        commit == _run_git(add.repo, <<"commit", "-m">>, FALSE)
    IN  IF bump_part_ = "dev"
        THEN Done("ok", _update_tag_in_prod_pyproject(r, tag_name, FALSE), cs)
        ELSE IF next_dev_.raised # ""
        THEN Done(next_dev_.raised, r, cs \o <<Call(checkout)>>)
        ELSE Done("ok",
                  _update_tag_in_prod_pyproject(commit.repo, tag_name, FALSE),
                  cs \o <<Call(checkout), Call(add), Call(commit)>>)

\* bump_package from the release commit on: tagged is what commit_and_tag
\* left, orig_head the call of git rev-parse HEAD that follows it
bump_package_tagged(bump_part_, dry_run, new_version_, tagged, cs) ==
    LET orig_head == _run_git(tagged.repo, <<"rev-parse", "HEAD">>, TRUE)
    IN  IF tagged.outcome # "ok"
        THEN Done(tagged.outcome, tagged.repo, cs \o tagged.calls)
        ELSE IF dry_run
        THEN Done("ok", tagged.repo,
                  cs \o tagged.calls \o <<Call(orig_head)>>)
        ELSE bump_package_post_release(
                 tagged.repo, bump_part_, tag_prefix \o new_version_,
                 _next_dev_version(new_version_),
                 cs \o tagged.calls \o <<Call(orig_head)>>)

\* bump_package from get_last_tag on, the index holding the bump;
\* cfg['tag_prefix'] raises KeyError when the configuration has none
bump_package_release(r, bump_part_, dry_run, new_version_, cs) ==
    LET prev_tag == _run_git(r, <<"describe", "--tags", "--abbrev=0">>, TRUE)
    IN  IF ~r.has_prefix
        THEN Done("KeyError", r, cs \o <<Call(prev_tag)>>)
        ELSE bump_package_tagged(
                 bump_part_, dry_run, new_version_,
                 commit_and_tag(r, tag_prefix \o new_version_, FALSE,
                                dry_run),
                 cs \o <<Call(prev_tag)>>)

\* bump_package after git add -A
bump_package_added(bump_part_, new_version_, add) ==
    IF Failed(add) # "" THEN Done(Failed(add), add.repo, <<Call(add)>>)
    ELSE bump_package_release(add.repo, bump_part_, FALSE, new_version_,
                              <<Call(add)>>)

\* bump_package once bump_version has returned or raised
bump_package_bumped(r, bump_part_, dry_run, bumped) ==
    IF bumped.raised # "" THEN Done(bumped.raised, r, <<>>)
    ELSE IF dry_run
    THEN bump_package_release(r, bump_part_, TRUE, bumped.value, <<>>)
    ELSE bump_package_added(
             bump_part_, bumped.value,
             _run_git(_clean_workspace_sources(
                          update_version_in_pyproject(r, bumped.value),
                          FALSE),
                      <<"add", "-A">>, FALSE))

\* bump_package: it returns at once without a tag message or without a
\* version in pyproject.toml
bump_package(r, bump_part_, dry_run) ==
    IF r.tag_message # "text" \/ ~r.pyproject THEN Done("ok", r, <<>>)
    ELSE bump_package_bumped(r, bump_part_, dry_run,
                             bump_version(r.version, bump_part_))

\* as push_package, the tags pushed whatever became of the branch
push_package_tags_anyway(r, dry_run) ==
    LET push == _run_git(r, <<"push", "origin">>, FALSE)
        tags == _run_git(push.repo, <<"push", "origin", AllTags>>, FALSE)
    IN  IF dry_run THEN Done("ok", r, <<>>)
        ELSE Done(IF Failed(push) # "" THEN Failed(push)
                  ELSE IF Failed(tags) # "" THEN Failed(tags) ELSE "ok",
                  tags.repo, <<Call(push), Call(tags)>>)

\* push_package: the branch, then the tags
push_package(r, dry_run) ==
    LET push == _run_git(r, <<"push", "origin">>, FALSE)
        tags == _run_git(push.repo, <<"push", "origin", AllTags>>, FALSE)
    IN  IF dry_run THEN Done("ok", r, <<>>)
        ELSE IF Failed(push) # ""
        THEN Done(Failed(push), push.repo, <<Call(push)>>)
        ELSE Done(IF Failed(tags) # "" THEN Failed(tags) ELSE "ok",
                  tags.repo, <<Call(push), Call(tags)>>)

\* what the body of a stage's loop leaves for one package: as Done, with
\* what the body adds to the stage's count of processed packages
Counted(done, processed) ==
    [outcome |-> done.outcome, repo |-> done.repo, calls |-> done.calls,
     processed |-> IF done.outcome = "ok" THEN processed ELSE 0]

\* stage4.py: run, the push of the package after its bump
stage4_run_pushed(bumped, pushed) ==
    Counted(Done(pushed.outcome, pushed.repo, bumped.calls \o pushed.calls),
            1)

\* stage4.py: run, from the bump of the package on
stage4_run_bumped(bumped, push, dry_run) ==
    IF bumped.outcome # "ok" \/ ~push THEN Counted(bumped, 1)
    ELSE stage4_run_pushed(bumped, push_package(bumped.repo, dry_run))

\* as stage4_run, without the test of the tag message file
stage4_run_any_message(r, bump, push, dry_run) ==
    stage4_run_bumped(
        IF bump # "" THEN bump_package(r, bump, dry_run)
        ELSE Done("ok", r, <<>>),
        push, dry_run)

\* stage4.py: run, the loop body on one package; bump is "" without --bump
stage4_run(r, bump, push, dry_run) ==
    IF r.tag_message # "text" THEN Counted(Done("ok", r, <<>>), 0)
    ELSE stage4_run_bumped(
             IF bump # "" THEN bump_package(r, bump, dry_run)
             ELSE Done("ok", r, <<>>),
             push, dry_run)

\* stage5_tag.py: run, the loop body on one package
stage5_tag_run(r, push, dry_run) ==
    LET tag_name == cfg_get_tag_prefix(r) \o r.version
        exists == _tag_exists(r, tag_name)
        proc == _run_git(r, <<"log", "-1", "--pretty=%B">>, TRUE)
        created == _create_tag(proc.repo, tag_name, push, dry_run)
    IN  IF ~r.pyproject THEN Done("ok", r, <<>>)
        ELSE IF exists.value THEN Done("ok", r, exists.calls)
        ELSE Done(created.outcome, created.repo,
                  exists.calls \o <<Call(proc)>> \o created.calls)

\* stage5.py: _update_dependency_tag, the package's tag in
\* prod/pyproject.toml
_update_dependency_tag(r, new_tag, dry_run) ==
    IF r.prod_tag # <<>> /\ r.prod_tag # new_tag /\ ~dry_run
    THEN [r EXCEPT !.prod_tag = new_tag]
    ELSE r

\* stage5.py: run, the loop body once the tag is known to be new
stage5_run_new_tag(r, tag_name, push, dry_run) ==
    LET proc == _run_git(r, <<"log", "-1", "--pretty=%B">>, TRUE)
        created == _create_tag(_update_dependency_tag(r, tag_name, dry_run),
                               tag_name, push, dry_run)
    IN  Done(created.outcome, created.repo,
             (IF r.tag_message # "text" THEN <<Call(proc)>> ELSE <<>>)
                 \o created.calls)

\* stage5.py: run, the loop body on one package
stage5_run(r, push, dry_run) ==
    LET tag_name == cfg_get_tag_prefix(r) \o r.version
        exists == _tag_exists(r, tag_name)
        new == stage5_run_new_tag(r, tag_name, push, dry_run)
    IN  IF ~r.changes_dir \/ ~r.pyproject THEN Done("ok", r, <<>>)
        ELSE IF exists.value THEN Done("ok", r, exists.calls)
        ELSE Done(new.outcome, new.repo, exists.calls \o new.calls)

----------------------------------------------------------------------------
(* git_helpers.py *)

IsSpace(c) == c \in {" ", "\t", "\n"}

\* s.split(): the pieces of s between runs of whitespace
RECURSIVE Split(_)
Split(s) ==
    IF s = <<>> THEN <<>>
    ELSE IF IsSpace(Head(s)) THEN Split(Tail(s))
    ELSE LET n == Min({i \in 2..(Len(s) + 1) : i > Len(s) \/ IsSpace(s[i])})
         IN  <<SubSeq(s, 1, n - 1)>> \o Split(SubSeq(s, n, Len(s)))

\* s.strip()
RECURSIVE Strip(_)
Strip(s) ==
    IF s = <<>> THEN s
    ELSE IF IsSpace(Head(s)) THEN Strip(Tail(s))
    ELSE IF IsSpace(s[Len(s)]) THEN Strip(SubSeq(s, 1, Len(s) - 1))
    ELSE s

\* s.split(sep)[0], s.split(sep, 1)[0]: the text before the first sep
Before(s, sep) ==
    IF \E i \in 1..Len(s) : s[i] = sep
    THEN SubSeq(s, 1, Min({i \in 1..Len(s) : s[i] = sep}) - 1)
    ELSE s

\* what the exit of temporary_stash leaves: result.kept, the repository, the
\* calls made
Restored(kept, r, cs) == [kept |-> kept, repo |-> r, calls |-> cs]

\* temporary_stash popping before the body runs
temporary_stash_enter_pops(r, enabled, message) ==
    IF ~enabled THEN Done("ok", r, <<>>)
    ELSE LET push == _run_git(r, <<"stash", "push", "--include-untracked",
                                   "-m", message>>, FALSE)
             pop == _run_git(push.repo, <<"stash", "pop">>, FALSE)
         IN  Done("ok", pop.repo, <<Call(push), Call(pop)>>)

\* temporary_stash up to its yield: disabled, it does nothing; enabled, it
\* pushes the working tree on the stash under the message, whatever git
\* answers
temporary_stash_enter(r, enabled, message) ==
    IF ~enabled THEN Done("ok", r, <<>>)
    ELSE LET push == _run_git(r, <<"stash", "push", "--include-untracked",
                                   "-m", message>>, FALSE)
         IN  Done("ok", push.repo, <<Call(push)>>)

\* temporary_stash dropping the newest entry whatever its description
temporary_stash_dropped_any(list_proc, message, cs) ==
    LET first_line == IF list_proc.stdout # <<>>
                      THEN Before(list_proc.stdout, "\n")
                      ELSE <<>>
    IN  IF first_line # <<>>
        THEN LET ref == Head(Before(first_line, ":"))
                 drop == _run_git(list_proc.repo, <<"stash", "drop", ref>>,
                                  FALSE)
             IN  Restored(FALSE, drop.repo,
                          cs \o <<Call(list_proc), Call(drop)>>)
        ELSE Restored(FALSE, list_proc.repo, cs \o <<Call(list_proc)>>)

\* temporary_stash, the else branch of its finally: the first line of
\* git stash list names the entry to drop when it contains the message
temporary_stash_dropped(list_proc, message, cs) ==
    LET first_line == IF list_proc.stdout # <<>>
                      THEN Before(list_proc.stdout, "\n")
                      ELSE <<>>
    IN  IF first_line # <<>> /\ Contains(first_line, message)
        THEN LET ref == Head(Before(first_line, ":"))
                 drop == _run_git(list_proc.repo, <<"stash", "drop", ref>>,
                                  FALSE)
             IN  Restored(FALSE, drop.repo,
                          cs \o <<Call(list_proc), Call(drop)>>)
        ELSE Restored(FALSE, list_proc.repo, cs \o <<Call(list_proc)>>)

\* temporary_stash, its finally after the conflicts were asked for
temporary_stash_popped(conflicts, keep, message, cs) ==
    LET has_conflicts == Strip(conflicts.stdout) # <<>>
    IN  IF has_conflicts \/ keep
        THEN Restored(TRUE, conflicts.repo, cs \o <<Call(conflicts)>>)
        ELSE temporary_stash_dropped(
                 _run_git(conflicts.repo, <<"stash", "list">>, TRUE),
                 message, cs \o <<Call(conflicts)>>)

\* temporary_stash, its finally after the pop
temporary_stash_finally(pop, keep, message) ==
    temporary_stash_popped(
        _run_git(pop.repo, <<"diff", "--name-only", "--diff-filter=U">>,
                 TRUE),
        keep, message, <<Call(pop)>>)

\* temporary_stash running its finally even when disabled
temporary_stash_exit_always(r, enabled, keep, message) ==
    temporary_stash_finally(_run_git(r, <<"stash", "pop">>, FALSE),
                            keep, message)

\* temporary_stash leaving out the pop
temporary_stash_exit_no_pop(r, enabled, keep, message) ==
    IF ~enabled THEN Restored(FALSE, r, <<>>)
    ELSE temporary_stash_popped(
             _run_git(r, <<"diff", "--name-only", "--diff-filter=U">>, TRUE),
             keep, message, <<>>)

\* temporary_stash from its yield on, the body having returned or raised:
\* disabled, it returns; enabled, it runs its finally
temporary_stash_exit(r, enabled, keep, message) ==
    IF ~enabled THEN Restored(FALSE, r, <<>>)
    ELSE temporary_stash_finally(_run_git(r, <<"stash", "pop">>, FALSE),
                                 keep, message)

\* start_point=None
NoStartPoint == ""

checkout_branch(r, branch, start_point) ==
    LET p == _run_git(r,
                      IF start_point = NoStartPoint
                      THEN <<"checkout", branch>>
                      ELSE <<"checkout", "-B", branch, start_point>>,
                      FALSE)
    IN  Done("ok", p.repo, <<Call(p)>>)

\* calc_ahead_behind taking a single counter as the commits behind
calc_ahead_behind_single_behind(proc) ==
    LET output == Strip(proc.stdout)
        parts == Split(output)
    IN  IF proc.returncode # 0 \/ output = <<>> THEN <<0, 0>>
        ELSE IF Len(parts) = 2
        THEN <<StrToInt(parts[1]), StrToInt(parts[2])>>
        ELSE IF Len(parts) = 1 THEN <<0, StrToInt(parts[1])>>
        ELSE <<0, 0>>

\* calc_ahead_behind from the result proc of its rev-list command on
calc_ahead_behind_parse(proc) ==
    LET output == Strip(proc.stdout)
        parts == Split(output)
    IN  IF proc.returncode # 0 \/ output = <<>> THEN <<0, 0>>
        ELSE IF Len(parts) = 2
        THEN <<StrToInt(parts[1]), StrToInt(parts[2])>>
        ELSE IF Len(parts) = 1
        THEN <<StrToInt(parts[1]), StrToInt(<<"0">>)>>
        ELSE <<0, 0>>

calc_ahead_behind(r, branch, remote_ref) ==
    LET proc == _run_git(r, <<"rev-list", "--left-right", "--count",
                              <<branch, "...", remote_ref>>>>, TRUE)
    IN  [value |-> calc_ahead_behind_parse(proc), repo |-> proc.repo,
         calls |-> <<Call(proc)>>]

\* remote_branch_exists
remote_branch_exists(r, branch) ==
    LET p == _run_git(r, <<"rev-parse", "--verify", "origin/" \o branch>>,
                      TRUE)
    IN  [value |-> p.returncode = 0, repo |-> p.repo, calls |-> <<Call(p)>>]

\* git_utils.has_uncommitted_changes, by get_uncommitted_changes
has_uncommitted_changes(r) ==
    LET proc == _run_git(r, <<"status", "--porcelain">>, TRUE)
    IN  [outcome |-> Failed(proc), value |-> Strip(proc.stdout) # <<>>,
         repo |-> proc.repo, calls |-> <<Call(proc)>>]

(* status_analyzer.py *)

RepoStatus(ahead, behind, uncommitted) ==
    [ahead |-> ahead, behind |-> behind, uncommitted |-> uncommitted]

\* analyze_repo_status asking for the uncommitted changes only when the
\* remote branch exists
analyze_repo_status_skips_status(r, branch) ==
    LET exists == remote_branch_exists(r, branch)
        pair == calc_ahead_behind(exists.repo, branch, "origin/" \o branch)
        uncommitted == has_uncommitted_changes(pair.repo)
    IN  IF exists.value
        THEN [outcome |-> uncommitted.outcome,
              value |-> RepoStatus(pair.value[1], pair.value[2],
                                   uncommitted.value),
              repo |-> uncommitted.repo,
              calls |-> exists.calls \o pair.calls \o uncommitted.calls]
        ELSE [outcome |-> "", value |-> RepoStatus(0, 0, FALSE),
              repo |-> exists.repo, calls |-> exists.calls]

analyze_repo_status(r, branch) ==
    LET exists == remote_branch_exists(r, branch)
        pair == IF exists.value
                THEN calc_ahead_behind(exists.repo, branch,
                                       "origin/" \o branch)
                ELSE [value |-> <<0, 0>>, repo |-> exists.repo,
                      calls |-> <<>>]
        uncommitted == has_uncommitted_changes(pair.repo)
    IN  [outcome |-> uncommitted.outcome,
         value |-> RepoStatus(pair.value[1], pair.value[2],
                              uncommitted.value),
         repo |-> uncommitted.repo,
         calls |-> exists.calls \o pair.calls \o uncommitted.calls]

----------------------------------------------------------------------------
(* stage1.py, stage2.py: the stage's work on one package; the record r     *)
(* also holds the package's directory of change artifacts (changes_dir),   *)
(* its changes file and its commit message file                            *)

\* has_commits_to_push once the remote branch is known to exist
has_commits_to_push_counted(r, branch, proc_check, name) ==
    CHOOSE has \in
        {[outcome |-> IF Failed(proc) = "" THEN "ok" ELSE Failed(proc),
          value |-> Failed(proc) = "" /\ StrToInt(Strip(proc.stdout)) > 0,
          calls |-> <<Call(branch), Call(proc_check), Call(proc)>>] :
         proc \in {_run_git(r, <<"rev-list", "--count",
                                 "origin/" \o name \o "..HEAD">>, TRUE)}} :
        TRUE

\* has_commits_to_push once the current branch is known
has_commits_to_push_on(r, branch, name) ==
    CHOOSE has \in
        {IF proc_check.returncode # 0
         THEN [outcome |-> "ok", value |-> TRUE,
               calls |-> <<Call(branch), Call(proc_check)>>]
         ELSE has_commits_to_push_counted(r, branch, proc_check, name) :
         proc_check \in {_run_git(r, <<"rev-parse", "--verify",
                                       "origin/" \o name>>, TRUE)}} :
        TRUE

has_commits_to_push(r) ==
    CHOOSE has \in
        {IF Failed(branch) # ""
         THEN [outcome |-> Failed(branch), value |-> FALSE,
               calls |-> <<Call(branch)>>]
         ELSE has_commits_to_push_on(
                  r, branch,
                  IF Strip(branch.stdout) = <<>> THEN ""
                  ELSE Head(Strip(branch.stdout))) :
         branch \in {_run_git(r, <<"rev-parse", "--abbrev-ref", "HEAD">>,
                              TRUE)}} :
        TRUE

\* stage1.py: process_package
stage1_process_package(r, dry_run) ==
    LET status == _run_git(r, <<"status", "--porcelain">>, TRUE)
        diff_stat == _run_git(r, <<"diff", "--stat">>, TRUE)
        full_diff == _run_git(r, <<"diff">>, TRUE)
        made == [r EXCEPT !.changes_dir = TRUE]
    IN  IF status.stdout = <<>> THEN Done("ok", r, <<Call(status)>>)
        ELSE Done("ok",
                  IF dry_run THEN made
                  ELSE [made EXCEPT
                           !.changes_file = TRUE,
                           !.commit_message =
                               IF r.commit_message = "missing" THEN "empty"
                               ELSE r.commit_message],
                  <<Call(status), Call(status), Call(diff_stat),
                    Call(full_diff)>>)

\* stage2.py: process_package
stage2_process_package(r, push, dry_run) ==
    IF r.commit_message # "text" THEN Done("ok", r, <<>>)
    ELSE commit_all(r, push, dry_run)

\* stage2.py: run, the push of the package, in its try block
stage2_run_push(committed, has) ==
    IF has.outcome = "ok" /\ has.value
    THEN CHOOSE done \in
             {Done("ok", pushed.repo,
                   committed.calls \o has.calls \o pushed.calls) :
              pushed \in {_push_repo(committed.repo)}} : TRUE
    ELSE Done("ok", committed.repo, committed.calls \o has.calls)

\* stage2.py: run, from the commit of the package on
stage2_run_committed(committed, push) ==
    IF committed.outcome # "ok" \/ ~push THEN committed
    ELSE CHOOSE done \in
             {stage2_run_push(committed, has) :
              has \in {has_commits_to_push(committed.repo)}} : TRUE

\* stage2.py: run, on one package
stage2_run(r, commit, push, dry_run) ==
    CHOOSE done \in
        {stage2_run_committed(committed, push) :
         committed \in {IF commit \/ ~push
                        THEN stage2_process_package(r, FALSE, dry_run)
                        ELSE Done("ok", r, <<>>)}} : TRUE

----------------------------------------------------------------------------
(* git_helpers.py and stage0.py: the preparation of the dev branch of one  *)
(* package, with --branch dev_branch, --base-branch main and the remote    *)
(* origin.                                                                 *)

\* local_branch_exists
local_branch_exists(r, branch) ==
    LET p == _run_git(r, <<"show-ref", "--verify", "refs/heads/" \o branch>>,
                      TRUE)
    IN  [value |-> p.returncode = 0, repo |-> p.repo, calls |-> <<Call(p)>>]

\* fast_forward moving the branch to the target when git refuses
fast_forward_resets(r, target_ref) ==
    LET proc == _run_git(r, <<"merge", "--ff-only", target_ref>>, TRUE)
        reset == _run_git(proc.repo,
                          <<"checkout", "-B", "dev_branch", target_ref>>,
                          FALSE)
    IN  IF proc.returncode = 0
        THEN [outcome |-> "ok", value |-> Strip(proc.stdout) # <<>>,
              repo |-> proc.repo, calls |-> <<Call(proc)>>]
        ELSE [outcome |-> "ok", value |-> TRUE, repo |-> reset.repo,
              calls |-> <<Call(proc), Call(reset)>>]

\* fast_forward: GitError when git refuses and does not say that the branch
\* is up to date
fast_forward(r, target_ref) ==
    LET proc == _run_git(r, <<"merge", "--ff-only", target_ref>>, TRUE)
        said == IF proc.stderr # <<>> THEN proc.stderr ELSE proc.stdout
    IN  [outcome |-> IF proc.returncode = 0 THEN "ok"
                     ELSE IF Contains(said, <<"already", "up", "to", "date">>)
                     THEN "ok"
                     ELSE "GitError",
         value |-> proc.returncode = 0 /\ Strip(proc.stdout) # <<>>,
         repo |-> proc.repo, calls |-> <<Call(proc)>>]

\* ensure_tracking
ensure_tracking(r, branch) ==
    LET exists == remote_branch_exists(r, branch)
        set == _run_git(r, <<"branch", "--set-upstream-to",
                             "origin/" \o branch, branch>>, FALSE)
    IN  IF exists.value
        THEN Done("ok", set.repo, exists.calls \o <<Call(set)>>)
        ELSE Done("ok", r, exists.calls)

\* --stash-name, by default
stash_name == <<"stage0-auto-dev_branch">>

\* what _process_package leaves: how it ended, the lines it printed, the
\* tuple it returned (push_done, stash_kept, ahead, behind), the repository
\* and the calls made
Processed(outcome, printed, value, r, cs) ==
    [outcome |-> outcome, printed |-> printed, value |-> value, repo |-> r,
     calls |-> cs]

\* _process_package: ahead/behind, the closing line and the return
_process_package_counted(r, cs, out, push_done, stash_kept) ==
    LET exists == remote_branch_exists(r, "dev_branch")
        pair == calc_ahead_behind(r, "dev_branch", "origin/dev_branch")
    IN  IF exists.value
        THEN Processed("ok", out \o <<"prepared">>,
                       <<push_done, stash_kept, pair.value[1],
                         pair.value[2]>>,
                       r, cs \o exists.calls \o pair.calls)
        ELSE Processed("ok", out \o <<"prepared">>,
                       <<push_done, stash_kept, 0, 0>>, r,
                       cs \o exists.calls)

\* _process_package pushing whenever --push is given
_process_package_pushes_always(r, cs, out, push, stash_kept) ==
    IF ~push THEN _process_package_counted(r, cs, out, FALSE, stash_kept)
    ELSE CHOOSE d \in
        {IF pushed.outcome # "ok"
         THEN Processed(pushed.outcome, out, <<>>, pushed.repo,
                        cs \o pushed.calls)
         ELSE _process_package_counted(pushed.repo, cs \o pushed.calls,
                                       out \o <<"pushed">>, TRUE, stash_kept) :
            pushed \in {_push_repo(r)}} : TRUE

\* _process_package: the push
_process_package_tracked(r, cs, out, push, stash_kept) ==
    IF ~push THEN _process_package_counted(r, cs, out, FALSE, stash_kept)
    ELSE CHOOSE d \in
        {IF has.outcome # "ok"
         THEN Processed(has.outcome, out, <<>>, r, cs \o has.calls)
         ELSE IF ~has.value
         THEN _process_package_counted(r, cs \o has.calls,
                                       out \o <<"push skipped">>, FALSE,
                                       stash_kept)
         ELSE CHOOSE e \in
             {IF pushed.outcome # "ok"
              THEN Processed(pushed.outcome, out, <<>>, pushed.repo,
                             cs \o has.calls \o pushed.calls)
              ELSE _process_package_counted(
                       pushed.repo, cs \o has.calls \o pushed.calls,
                       out \o <<"pushed">>, TRUE, stash_kept) :
                 pushed \in {_push_repo(r)}} : TRUE :
            has \in {has_commits_to_push(r)}} : TRUE

\* _process_package: the upstream
_process_package_checked_out(r, cs, out, push, stash_kept) ==
    CHOOSE d \in
        {_process_package_tracked(t.repo, cs \o t.calls, out, push,
                                  stash_kept) :
            t \in {ensure_tracking(r, "dev_branch")}} : TRUE

\* _process_package: the fast-forward of a branch that is on the remote
_process_package_switched(r, cs, push) ==
    CHOOSE d \in
        {_process_package_checked_out(
             ff.repo, cs \o ff.calls,
             IF ff.outcome = "GitError" THEN <<"diverges">> ELSE <<>>,
             push, FALSE) :
            ff \in {fast_forward(r, "origin/dev_branch")}} : TRUE

\* _process_package: a branch that is on the remote
_process_package_existing(r, cs, local_dev_exists, push) ==
    CHOOSE d \in
        {_process_package_switched(co.repo, cs \o co.calls, push) :
            co \in {checkout_branch(r, "dev_branch",
                                    IF local_dev_exists THEN NoStartPoint
                                    ELSE "origin/dev_branch")}} : TRUE

\* s.split(sep)[-1]: the text after the last sep
AfterLast(s, sep) ==
    LET at == {i \in 1..Len(s) : s[i] = sep}
    IN  IF at = {} THEN s
        ELSE SubSeq(s, (CHOOSE i \in at : \A j \in at : j <= i) + 1, Len(s))

\* _process_package: the ref the new branch starts from, and the calls made
\* to find it
start_ref(r, fallback_head) ==
    LET base_exists == remote_branch_exists(r, "main")
        head_proc == _run_git(r, <<"symbolic-ref",
                                   "refs/remotes/origin/HEAD">>, TRUE)
        default == AfterLast(Strip(head_proc.stdout), "/")
    IN  IF base_exists.value
        THEN [value |-> "origin/main", calls |-> base_exists.calls]
        ELSE IF ~fallback_head
        THEN [value |-> "main", calls |-> base_exists.calls]
        ELSE [value |-> IF head_proc.returncode # 0 THEN "main"
                        ELSE IF default = <<>> THEN "origin/main"
                        ELSE "origin/" \o Head(default),
              calls |-> base_exists.calls \o <<Call(head_proc)>>]

\* _process_package: the with statement, entered
_process_package_stashed(r, cs, start, enabled, push, keep_stash) ==
    CHOOSE d \in
        {CHOOSE e \in
            {_process_package_checked_out(
                 ts.repo, cs \o co.calls \o ts.calls, <<>>, push, ts.kept) :
                ts \in {temporary_stash_exit(co.repo, enabled, keep_stash,
                                             stash_name)}} : TRUE :
            co \in {checkout_branch(r, "dev_branch", start)}} : TRUE

\* _process_package: a branch that is not on the remote is created from the
\* base
_process_package_created(r, cs, push, no_stash, keep_stash, fallback_head) ==
    LET start == start_ref(r, fallback_head)
        status == _run_git(r, <<"status", "--porcelain">>, TRUE)
        workspace_dirty == Strip(status.stdout) # <<>>
        asked == cs \o start.calls \o <<Call(status)>>
    IN  IF workspace_dirty /\ no_stash
        THEN Processed("ok", <<"skipped">>, <<FALSE, FALSE, 0, 0>>, r, asked)
        ELSE CHOOSE d \in
            {_process_package_stashed(enter.repo, asked \o enter.calls,
                                      start.value,
                                      workspace_dirty /\ ~no_stash, push,
                                      keep_stash) :
                enter \in {temporary_stash_enter(
                               r, workspace_dirty /\ ~no_stash,
                               stash_name)}} : TRUE

\* _process_package after the fetch
_process_package_fetched(r, cs, push, no_stash, keep_stash, fallback_head) ==
    LET remote_dev_exists == remote_branch_exists(r, "dev_branch")
        local_dev_exists == local_branch_exists(r, "dev_branch")
        asked == cs \o remote_dev_exists.calls \o local_dev_exists.calls
    IN  IF remote_dev_exists.value
        THEN _process_package_existing(r, asked, local_dev_exists.value, push)
        ELSE _process_package_created(r, asked, push, no_stash, keep_stash,
                                      fallback_head)

_process_package(r, push, dry_run, no_stash, keep_stash, fallback_head) ==
    IF dry_run
    THEN Processed("ok", <<"dry-run">>, <<FALSE, FALSE, 0, 0>>, r, <<>>)
    ELSE CHOOSE d \in
        {_process_package_fetched(fetch.repo, <<Call(fetch)>>, push, no_stash,
                                  keep_stash, fallback_head) :
            fetch \in {_run_git(r, <<"fetch", "origin">>, FALSE)}} : TRUE

----------------------------------------------------------------------------
(* git_utils.py and stage3.py: the changes of a package since its last tag; *)
(* the record r also holds the package's changes file (changes_file) and   *)
(* tag message file (tag_message)                                          *)

\* None, for a tag
NoTag == ""

get_last_tag(r) ==
    LET proc == _run_git(r, <<"describe", "--tags", "--abbrev=0">>, TRUE)
    IN  [outcome |-> "ok",
         value |-> IF proc.returncode # 0 \/ Strip(proc.stdout) = <<>>
                   THEN NoTag
                   ELSE Head(Strip(proc.stdout)),
         calls |-> <<Call(proc)>>]

has_changes_since_last_tag(r) ==
    LET last_tag == get_last_tag(r)
        proc == _run_git(r, <<"rev-list", last_tag.value \o "..HEAD",
                              "--count">>, TRUE)
    IN  IF last_tag.outcome # "ok"
        THEN [outcome |-> last_tag.outcome, value |-> FALSE,
              calls |-> last_tag.calls]
        ELSE IF last_tag.value = NoTag
        THEN [outcome |-> "ok", value |-> TRUE, calls |-> last_tag.calls]
        ELSE [outcome |-> IF proc.returncode # 0 THEN "GitError" ELSE "ok",
              value |-> /\ proc.returncode = 0
                        /\ Strip(proc.stdout) # <<>>
                        /\ StrToInt(Strip(proc.stdout)) > 0,
              calls |-> last_tag.calls \o <<Call(proc)>>]

get_diff_since_tag(r, tag) ==
    LET proc == _run_git(r, <<"diff", IF tag # NoTag THEN tag \o "..HEAD"
                                      ELSE "HEAD^..HEAD">>, TRUE)
    IN  [outcome |-> IF proc.returncode # 0 THEN "GitError" ELSE "ok",
         value |-> Strip(proc.stdout), calls |-> <<Call(proc)>>]

\* stage3.process_package from the diff on
stage3_process_package_since(r, dry_run, tag_to_use, cs) ==
    LET diff_txt == get_diff_since_tag(r, tag_to_use)
        asked == cs \o diff_txt.calls
    IN  IF diff_txt.outcome # "ok"
        THEN Processed(diff_txt.outcome, <<>>, <<>>, r, asked)
        ELSE IF diff_txt.value = <<>>
        THEN Processed("ok", <<"no changes to write">>, <<>>, r, asked)
        ELSE IF dry_run
        THEN Processed("ok", <<"dry-run">>, <<>>, r, asked)
        ELSE Processed("ok", <<"saved">>, <<>>,
                       [r EXCEPT !.changes_file = TRUE,
                                 !.tag_message =
                                     IF @ = "missing" THEN "template" ELSE @],
                       asked)

\* stage3.process_package
stage3_process_package(r, dry_run, from_tag) ==
    LET proc == _run_git(r, <<"rev-parse", "--verify", from_tag>>, TRUE)
        tag_to_use == get_last_tag(r)
        has == has_changes_since_last_tag(r)
    IN  IF from_tag # NoTag
        THEN IF proc.returncode # 0
             THEN Processed("ok", <<"tag not found">>, <<>>, r, <<Call(proc)>>)
             ELSE stage3_process_package_since(r, dry_run, from_tag,
                                               <<Call(proc)>>)
        ELSE IF tag_to_use.outcome # "ok"
        THEN Processed(tag_to_use.outcome, <<>>, <<>>, r, tag_to_use.calls)
        ELSE IF has.outcome # "ok"
        THEN Processed(has.outcome, <<>>, <<>>, r,
                       tag_to_use.calls \o has.calls)
        ELSE IF ~has.value
        THEN Processed("ok", <<"no new commits">>, <<>>, r,
                       tag_to_use.calls \o has.calls)
        ELSE stage3_process_package_since(r, dry_run, tag_to_use.value,
                                          tag_to_use.calls \o has.calls)

----------------------------------------------------------------------------
(* The state machine of the git layer: a stage calls commit_all or         *)
(* _push_repo on the package repository; between two calls the user may    *)
(* change the working tree.                                                *)

InitialRepos ==
    {r \in [worktree : {"clean", "modified", "untracked"},
            staged : BOOLEAN,
            head : {1},
            remote_branch : BOOLEAN,
            remote_head : 0..1,
            upstream : BOOLEAN,
            add_fault : BOOLEAN,
            commit_fault : {"none", "hook", "identity"},
            push_fault : {"none", "unreachable", "rejected"}] :
        /\ r.upstream => r.remote_branch
        /\ ~r.remote_branch => r.remote_head = 0}

GitInit ==
    /\ mode = "git"
    /\ current_version = <<>>
    /\ bump_part = ""
    /\ new_version = Unset
    /\ next_dev = Unset
    /\ vpc = "idle"
    /\ repo \in InitialRepos
    /\ calls = <<>>
    /\ last = NoOperation
    /\ prev = NoOperation

\* stage2.process_package: commit_all(pkg_path, message, push=..., dry_run=...)
CommitAll(push, dry_run) ==
    /\ mode = "git"
    /\ LET done == commit_all(repo, push, dry_run)
       IN  /\ repo' = done.repo
           /\ calls' = done.calls
           /\ last' = [op |-> "commit_all", push |-> push,
                       dry_run |-> dry_run, outcome |-> done.outcome,
                       head_before |-> repo.head]
    /\ prev' = last
    /\ UNCHANGED <<mode, versionVars>>

\* stage2.run, stage6._process_package: _push_repo(pkg, remote)
PushRepo ==
    /\ mode = "git"
    /\ LET done == _push_repo(repo)
       IN  /\ repo' = done.repo
           /\ calls' = done.calls
           /\ last' = [op |-> "_push_repo", push |-> TRUE,
                       dry_run |-> FALSE, outcome |-> done.outcome,
                       head_before |-> repo.head]
    /\ prev' = last
    /\ UNCHANGED <<mode, versionVars>>

\* the user edits tracked files or adds new ones
EditWorktree(kind) ==
    /\ mode = "git"
    /\ repo.head < MaxCommits
    /\ repo' = [repo EXCEPT !.worktree = kind]
    /\ calls' = <<>>
    /\ last' = NoOperation
    /\ prev' = NoOperation
    /\ UNCHANGED <<mode, versionVars>>

GitNext ==
    \/ \E push \in BOOLEAN, dry_run \in BOOLEAN : CommitAll(push, dry_run)
    \/ PushRepo
    \/ \E kind \in {"modified", "untracked"} : EditWorktree(kind)

GitSpec == GitInit /\ [][GitNext]_vars

----------------------------------------------------------------------------
(* The state machine of tagging: commit_all, commit_and_tag and            *)
(* _create_tag are called on a package repository that has tags, a         *)
(* pyproject.toml version and the package's tag in prod/pyproject.toml.    *)

V100 == <<"1", ".", "0", ".", "0">>
V101 == <<"1", ".", "0", ".", "1">>

\* the tag name that commit_and_tag and _create_tag are called with
TagArguments == {tag_prefix \o V101}

\* the faults of the environment: of the commit and of the push
TagFaults ==
    {<<"none", "none">>, <<"hook", "none">>, <<"none", "unreachable">>}

\* the package repositories that commit_and_tag and _create_tag are called
\* on: the tag may exist already, in the repository or, on another
\* commit, in the remote
TagInitialRepos ==
    {r \in [worktree : {"clean"},
            staged : BOOLEAN,
            head : {1},
            remote_branch : BOOLEAN,
            remote_head : {0},
            upstream : BOOLEAN,
            add_fault : {FALSE},
            commit_fault : {"none", "hook"},
            push_fault : {"none", "unreachable"},
            tags : {{}, {Tag(tag_prefix \o V101, 1)}},
            remote_tags : {{}, {Tag(tag_prefix \o V101, 0)}},
            version : {V100},
            prod_tag : {<<>>}] :
        /\ r.upstream = r.remote_branch
        /\ <<r.commit_fault, r.push_fault>> \in TagFaults}

TagInit ==
    /\ mode = "tag"
    /\ current_version = <<>>
    /\ bump_part = ""
    /\ new_version = Unset
    /\ next_dev = Unset
    /\ vpc = "idle"
    /\ repo \in TagInitialRepos
    /\ calls = <<>>
    /\ last = NoOperation
    /\ prev = NoOperation

\* what the last operation was
Operation(op, tag, push, dry_run, done) ==
    [op |-> op, tag |-> tag, push |-> push, dry_run |-> dry_run,
     outcome |-> done.outcome, head_before |-> repo.head]

\* commit_and_tag(repo_path, commit_message, tag_name, remote, push, dry_run)
CommitAndTag(tag, push, dry_run) ==
    /\ mode = "tag"
    /\ repo.head < MaxCommits
    /\ LET done == commit_and_tag(repo, tag, push, dry_run)
       IN  /\ repo' = done.repo
           /\ calls' = done.calls
           /\ last' = Operation("commit_and_tag", tag, push, dry_run, done)
    /\ UNCHANGED <<mode, versionVars, prev>>

\* _create_tag(repo, tag, message, push, dry_run)
CreateTag(tag, push, dry_run) ==
    /\ mode = "tag"
    /\ LET done == _create_tag(repo, tag, push, dry_run)
       IN  /\ repo' = done.repo
           /\ calls' = done.calls
           /\ last' = Operation("_create_tag", tag, push, dry_run, done)
    /\ UNCHANGED <<mode, versionVars, prev>>

\* commit_all(repo_path, message, remote, push, dry_run)
TagCommitAll(push, dry_run) ==
    /\ mode = "tag"
    /\ repo.head < MaxCommits
    /\ LET done == commit_all(repo, push, dry_run)
       IN  /\ repo' = done.repo
           /\ calls' = done.calls
           /\ last' = Operation("commit_all", <<>>, push, dry_run, done)
    /\ UNCHANGED <<mode, versionVars, prev>>

\* the user stages a change of the package
StageChange ==
    /\ mode \in {"tag", "release"}
    /\ repo.head < MaxCommits
    /\ ~repo.staged
    /\ repo' = [repo EXCEPT !.worktree = "clean", !.staged = TRUE]
    /\ calls' = <<>>
    /\ last' = NoOperation
    /\ UNCHANGED <<mode, versionVars, prev>>

TagNext ==
    \/ \E tag \in TagArguments, push \in BOOLEAN, dry_run \in BOOLEAN :
          CommitAndTag(tag, push, dry_run)
    \/ \E tag \in TagArguments, push \in BOOLEAN, dry_run \in BOOLEAN :
          CreateTag(tag, push, dry_run)
    \/ \E push \in BOOLEAN, dry_run \in BOOLEAN :
          TagCommitAll(push, dry_run)
    \/ mode = "tag" /\ StageChange

TagSpec == TagInit /\ [][TagNext]_vars

----------------------------------------------------------------------------
(* The state machine of the release stages: stage 4 bumps, commits and     *)
(* tags a package and starts the next development cycle, stage 5 tags the  *)
(* current version of the package.                                         *)

\* the package repositories before a release, on a published branch; the
\* tags of 1.0.0 and 1.0.1 may exist already
ReleaseInitialRepos ==
    {r \in [worktree : {"clean"},
            staged : {FALSE},
            head : {1},
            remote_branch : {TRUE},
            remote_head : {1},
            upstream : {TRUE},
            add_fault : {FALSE},
            commit_fault : {"none", "hook"},
            push_fault : {"none", "unreachable"},
            tags : SUBSET {Tag(tag_prefix \o V100, 1),
                           Tag(tag_prefix \o V101, 1)},
            remote_tags : {{}, {Tag(tag_prefix \o V101, 0)}},
            version : {V100},
            prod_tag : {<<>>, tag_prefix \o V100},
            tag_message : {"text"},
            pyproject : {TRUE},
            has_prefix : {TRUE},
            log : {<<V100>>},
            sources : {FALSE},
            sources_log : {<<FALSE>>}] :
        <<r.commit_fault, r.push_fault>> \in TagFaults}

ReleaseInit ==
    /\ mode = "release"
    /\ current_version = <<>>
    /\ bump_part = ""
    /\ new_version = Unset
    /\ next_dev = Unset
    /\ vpc = "idle"
    /\ repo \in ReleaseInitialRepos
    /\ calls = <<>>
    /\ last = NoOperation
    /\ prev = NoOperation

\* how far the version of pyproject.toml is from 1.0.0
Distance(version) ==
    LET v == Version(version)
    IN  IF v.valid
        THEN v.release[Len(v.release)] + (IF v.is_dev THEN v.dev ELSE 0)
        ELSE 0

\* stage4.run --bump <part>: bump_package(pkg, cfg, bump_part, dry_run)
BumpPackage(part, dry_run) ==
    /\ mode = "release"
    /\ repo.head < MaxCommits
    /\ Distance(repo.version) < MaxPatch
    /\ \E done \in {bump_package(repo, part, dry_run)} :
           /\ repo' = done.repo
           /\ calls' = done.calls
           /\ last' = [op |-> "bump_package", part |-> part,
                       tag |-> tag_prefix \o
                                   bump_version(repo.version, part).value,
                       push |-> FALSE, dry_run |-> dry_run,
                       outcome |-> done.outcome, head_before |-> repo.head]
    /\ UNCHANGED <<mode, versionVars, prev>>

\* stage5_tag.run [--push] [--dry-run]
Stage5Tag(push, dry_run) ==
    /\ mode = "release"
    /\ \E done \in {stage5_tag_run(repo, push, dry_run)} :
           /\ repo' = done.repo
           /\ calls' = done.calls
           /\ last' = Operation("stage5_tag",
                                cfg_get_tag_prefix(repo) \o repo.version,
                                push, dry_run, done)
    /\ UNCHANGED <<mode, versionVars, prev>>

\* the user removes the hook that rejected the release commit
RepairHook ==
    /\ mode = "release"
    /\ repo.commit_fault = "hook"
    /\ last.op = "bump_package"
    /\ last.outcome = "GitError"
    /\ repo' = [repo EXCEPT !.commit_fault = "none"]
    /\ UNCHANGED <<calls, last, mode, versionVars, prev>>

ReleaseNext ==
    \/ \E part \in {"patch", "dev"}, dry_run \in BOOLEAN :
          BumpPackage(part, dry_run)
    \/ RepairHook
    \/ \E push \in BOOLEAN, dry_run \in BOOLEAN : Stage5Tag(push, dry_run)
    \/ mode = "release" /\ StageChange

ReleaseSpec == ReleaseInit /\ [][ReleaseNext]_vars

----------------------------------------------------------------------------
(* Stage 4 and stage 5 on one package at version 0.4.1, whose tag message, *)
(* pyproject.toml and configured tag prefix may be missing; the hook that  *)
(* rejects commits is tried on the packages that lack nothing.             *)

V041 == <<"0", ".", "4", ".", "1">>
V042 == <<"0", ".", "4", ".", "2">>
V043dev0 == <<"0", ".", "4", ".", "3", ".", "d", "e", "v", "0">>

Stage4InitialRepos ==
    {r \in
    [worktree : {"clean", "modified"},
     staged : {FALSE},
     head : {1},
     remote_branch : {TRUE},
     remote_head : {1},
     upstream : BOOLEAN,
     add_fault : {FALSE},
     commit_fault : {"none", "hook"},
     push_fault : {"none"},
     tags : SUBSET {Tag(tag_prefix \o V042, 1)},
     remote_tags : {{}},
     version : {V041},
     prod_tag : {<<>>},
     tag_message : {"missing", "empty", "text"},
     pyproject : BOOLEAN,
     has_prefix : BOOLEAN,
     log : {<<V041>>},
     sources : BOOLEAN,
     sources_log : {<<FALSE>>, <<TRUE>>},
     changes_dir : BOOLEAN] :
        /\ ~r.changes_dir => r.tag_message = "missing"
        /\ r.sources_log = <<r.sources>>
        /\ r.commit_fault = "hook" =>
               /\ r.tag_message = "text"
               /\ r.pyproject
               /\ r.has_prefix
               /\ r.upstream
               /\ ~r.sources}

Stage4Init ==
    /\ mode = "release"
    /\ current_version = <<>>
    /\ bump_part = ""
    /\ new_version = Unset
    /\ next_dev = Unset
    /\ vpc = "idle"
    /\ repo \in Stage4InitialRepos
    /\ calls = <<>>
    /\ last = NoOperation
    /\ prev = NoOperation

\* stage4.run --push: push_package(pkg, cfg, dry_run)
PushPackage(dry_run) ==
    /\ mode = "release"
    /\ \E done \in {push_package(repo, dry_run)} :
           /\ repo' = done.repo
           /\ calls' = done.calls
           /\ last' = Operation("push_package", <<>>, TRUE, dry_run, done)
    /\ UNCHANGED <<mode, versionVars, prev>>

\* stage5.run [--push] [--dry-run]
Stage5(push, dry_run) ==
    /\ mode = "release"
    /\ \E done \in {stage5_run(repo, push, dry_run)} :
           /\ repo' = done.repo
           /\ calls' = done.calls
           /\ last' = Operation("stage5",
                                cfg_get_tag_prefix(repo) \o repo.version,
                                push, dry_run, done)
    /\ UNCHANGED <<mode, versionVars, prev>>

Stage4Next ==
    \/ ReleaseNext
    \/ \E dry_run \in BOOLEAN : PushPackage(dry_run)
    \/ \E push \in BOOLEAN, dry_run \in BOOLEAN : Stage5(push, dry_run)

Stage4Spec == Stage4Init /\ [][Stage4Next]_vars

----------------------------------------------------------------------------
(* The state machine of branch comparison: stage 0 asks how far a local    *)
(* branch and its remote ref have diverged.                                *)

\* the numbers of commits on either side
Counts == (0..MaxAhead) \cup {10}

Branches == {"dev_branch", "main"}

AheadInit ==
    /\ mode = "ahead"
    /\ current_version = <<>>
    /\ bump_part = ""
    /\ new_version = Unset
    /\ next_dev = Unset
    /\ vpc = "idle"
    /\ repo \in {r \in [remote_branch : BOOLEAN, remote_ref : BOOLEAN,
                         counters : 0..3, ahead : Counts, behind : Counts,
                         worktree : {"clean", "modified"},
                         staged : {FALSE}] :
                     r.remote_ref => r.remote_branch}
    /\ calls = <<>>
    /\ last = NoOperation
    /\ prev = NoOperation

\* stage0._process_package: calc_ahead_behind(pkg, branch, remote/branch)
CalcAheadBehind(branch) ==
    /\ mode = "ahead"
    /\ LET done == calc_ahead_behind(repo, branch, "origin/" \o branch)
       IN  /\ calls' = done.calls
           /\ last' = [op |-> "calc_ahead_behind", branch |-> branch,
                       outcome |-> "ok", value |-> done.value]
    /\ UNCHANGED <<mode, versionVars, repo, prev>>

\* a stage asks for the status of the package: analyze_repo_status(repo,
\* branch)
AnalyzeRepoStatus(branch) ==
    /\ mode = "ahead"
    /\ LET done == analyze_repo_status(repo, branch)
       IN  /\ repo' = done.repo
           /\ calls' = done.calls
           /\ last' = [op |-> "analyze_repo_status", branch |-> branch,
                       outcome |-> IF done.outcome = "" THEN "ok"
                                   ELSE done.outcome,
                       value |-> done.value]
    /\ UNCHANGED <<mode, versionVars, prev>>

AheadNext ==
    \E branch \in Branches :
        CalcAheadBehind(branch) \/ AnalyzeRepoStatus(branch)

AheadSpec == AheadInit /\ [][AheadNext]_vars

----------------------------------------------------------------------------
(* The state machine of the change stages: stage 1 collects the            *)
(* uncommitted changes of a package into its directory of change           *)
(* artifacts, the user writes the commit message, stage 2 commits and      *)
(* pushes.                                                                 *)

StageInitialRepos ==
    {r \in [worktree : {"clean", "modified"},
            staged : {FALSE},
            head : {1},
            remote_branch : BOOLEAN,
            remote_head : 0..1,
            upstream : BOOLEAN,
            add_fault : {FALSE},
            commit_fault : {"none"},
            push_fault : {"none", "unreachable"},
            changes_dir : BOOLEAN,
            changes_file : BOOLEAN,
            commit_message : {"missing", "empty", "text"}] :
        /\ r.upstream => r.remote_branch
        /\ ~r.remote_branch => r.remote_head = 0
        /\ r.changes_dir = (r.commit_message # "missing")
        /\ r.changes_file = r.changes_dir}

StageInit ==
    /\ mode = "stage"
    /\ current_version = <<>>
    /\ bump_part = ""
    /\ new_version = Unset
    /\ next_dev = Unset
    /\ vpc = "idle"
    /\ repo \in StageInitialRepos
    /\ calls = <<>>
    /\ last = NoOperation
    /\ prev = NoOperation

\* stage1.run [--dry-run]
Stage1Run(dry_run) ==
    /\ mode = "stage"
    /\ \E done \in {stage1_process_package(repo, dry_run)} :
           /\ repo' = done.repo
           /\ calls' = done.calls
           /\ last' = [op |-> "stage1.run", push |-> FALSE,
                       dry_run |-> dry_run, outcome |-> done.outcome,
                       head_before |-> repo.head]
    /\ UNCHANGED <<mode, versionVars, prev>>

\* stage2.run [--commit] [--push] [--dry-run]
Stage2Run(commit, push, dry_run) ==
    /\ mode = "stage"
    /\ \E done \in {stage2_run(repo, commit, push, dry_run)} :
           /\ repo' = done.repo
           /\ calls' = done.calls
           /\ last' = [op |-> "stage2.run", push |-> push,
                       dry_run |-> dry_run, outcome |-> done.outcome,
                       head_before |-> repo.head]
    /\ UNCHANGED <<mode, versionVars, prev>>

\* the user fills in the commit message file that stage 1 created
WriteCommitMessage ==
    /\ mode = "stage"
    /\ repo.commit_message = "empty"
    /\ repo' = [repo EXCEPT !.commit_message = "text"]
    /\ calls' = <<>>
    /\ last' = NoOperation
    /\ UNCHANGED <<mode, versionVars, prev>>

StageNext ==
    \/ \E dry_run \in BOOLEAN : Stage1Run(dry_run)
    \/ \E commit \in BOOLEAN, push \in BOOLEAN, dry_run \in BOOLEAN :
          Stage2Run(commit, push, dry_run)
    \/ WriteCommitMessage

StageSpec == StageInit /\ [][StageNext]_vars

----------------------------------------------------------------------------
(* The state machine of the stash transaction: stage 0 wraps the checkout *)
(* of the development branch in temporary_stash. A transaction is entered, *)
(* its body runs, and its exit runs whether the body returned or raised.   *)

\* the most entries the stash stack holds when a transaction is entered
MaxStash == 2

\* the default message of stage 0 and one given with --stash-name
Labels == {<<"stage0-auto-dev_branch">>, <<"mine">>}

\* entries found in the stash: one the user made, one a transaction left
EarlierEntries ==
    {[message |-> <<"WIP", "on", "main", ":", "fix">>, changes |-> {"old"}],
     [message |-> <<"On", "main", ":", "stage0-auto-dev_branch">>,
      changes |-> {"old"}]}

\* working trees with or without local changes, entries already stashed,
\* a start point that does or does not touch the files changed locally
StashInitialRepos ==
    {[changes |-> c, unmerged |-> FALSE, branch |-> "main",
      conflicting |-> k, stash |-> st] :
        c \in {{}, {"new"}}, k \in BOOLEAN,
        st \in {<<>>} \cup {<<e>> : e \in EarlierEntries}
               \cup (IF MaxStash >= 2
                     THEN {<<e, f>> : e \in EarlierEntries,
                                      f \in EarlierEntries}
                     ELSE {})}

StashInit ==
    /\ mode = "stash"
    /\ current_version = <<>>
    /\ bump_part = ""
    /\ new_version = Unset
    /\ next_dev = Unset
    /\ vpc = "idle"
    /\ repo \in StashInitialRepos
    /\ calls = <<>>
    /\ last = NoOperation
    /\ prev = NoOperation

\* no transaction is open
StashIdle == IF last.op = "temporary_stash" THEN last.at = "done" ELSE TRUE

\* with temporary_stash(repo, enabled=..., message=..., keep=...) as ts:
\* the code up to the yield
StashEnter(enabled, keep, message) ==
    /\ mode = "stash"
    /\ StashIdle
    /\ Len(repo.stash) <= MaxStash
    /\ LET done == temporary_stash_enter(repo, enabled, message)
       IN  /\ repo' = done.repo
           /\ calls' = done.calls
           /\ last' = [op |-> "temporary_stash", at |-> "body",
                       enabled |-> enabled, keep |-> keep,
                       message |-> message, bodies |-> 0, kept |-> FALSE,
                       outcome |-> "", before |-> repo]
    /\ UNCHANGED <<mode, versionVars, prev>>

\* the body of the with statement: checkout_branch(pkg, branch, start_ref),
\* or an exception that leaves the body before it
StashBody(raises) ==
    /\ mode = "stash"
    /\ last.op = "temporary_stash"
    /\ last.at = "body"
    /\ LET done == IF raises THEN Done("raised", repo, <<>>)
                   ELSE checkout_branch(repo, "dev_branch", "origin/main")
       IN  /\ repo' = done.repo
           /\ calls' = calls \o done.calls
           /\ last' = [last EXCEPT !.at = "finally", !.bodies = @ + 1,
                                   !.outcome = done.outcome]
    /\ UNCHANGED <<mode, versionVars, prev>>

\* temporary_stash after the yield: the body has returned or raised
StashExit ==
    /\ mode = "stash"
    /\ last.op = "temporary_stash"
    /\ last.at = "finally"
    /\ LET done == temporary_stash_exit(repo, last.enabled, last.keep,
                                        last.message)
       IN  /\ repo' = done.repo
           /\ calls' = calls \o done.calls
           /\ last' = [last EXCEPT !.at = "done", !.kept = done.kept]
    /\ UNCHANGED <<mode, versionVars, prev>>

\* between transactions the user resolves what is unmerged, goes back to
\* the base branch and edits files
StashEditWorktree ==
    /\ mode = "stash"
    /\ StashIdle
    /\ repo' = [repo EXCEPT !.changes = {"new"}, !.unmerged = FALSE,
                            !.branch = "main"]
    /\ calls' = <<>>
    /\ last' = NoOperation
    /\ UNCHANGED <<mode, versionVars, prev>>

StashNext ==
    \/ \E enabled \in BOOLEAN, keep \in BOOLEAN, message \in Labels :
           StashEnter(enabled, keep, message)
    \/ \E raises \in BOOLEAN : StashBody(raises)
    \/ StashExit
    \/ StashEditWorktree

StashSpec == StashInit /\ [][StashNext]_vars

----------------------------------------------------------------------------
(* The state machine of stage 0 on one package that takes part in the      *)
(* release and has the remote origin.                                      *)

\* repositories on main or on dev_branch, with or without local changes,
\* with dev_branch here, on the remote, on both (ahead of, behind or
\* diverged from the remote branch) or nowhere
Stage0InitialRepos ==
    {r \in [branch : {"main", "dev_branch"}, changes : {{}, {"new"}},
            unmerged : {FALSE}, conflicting : BOOLEAN, stash : {<<>>},
            local_dev : BOOLEAN, remote_branch : BOOLEAN,
            remote_base : BOOLEAN, origin_head : BOOLEAN,
            ahead : 0..MaxAhead, behind : 0..MaxAhead,
            dev_tip : {"none", "local"}, upstream : BOOLEAN,
            fetch_fault : BOOLEAN, push_fault : {"none", "unreachable"}] :
        /\ r.branch = "dev_branch" => r.local_dev
        /\ r.dev_tip = (IF r.local_dev THEN "local" ELSE "none")
        /\ ~(r.local_dev /\ r.remote_branch) => (r.ahead = 0 /\ r.behind = 0)
        /\ r.upstream => (r.local_dev /\ r.remote_branch)
        /\ r.changes = {} => ~r.conflicting
        /\ r.remote_branch => (r.remote_base /\ ~r.origin_head)}

Stage0Init ==
    /\ mode = "stage0"
    /\ current_version = <<>>
    /\ bump_part = ""
    /\ new_version = Unset
    /\ next_dev = Unset
    /\ vpc = "idle"
    /\ repo \in Stage0InitialRepos
    /\ calls = <<>>
    /\ last = NoOperation
    /\ prev = NoOperation

\* stage0.run on the package: _process_package(pkg, ...)
ProcessPackage(push, dry_run, no_stash, keep_stash, fallback_head) ==
    /\ mode = "stage0"
    /\ last.op = "none"
    /\ \E done \in {_process_package(repo, push, dry_run, no_stash,
                                     keep_stash, fallback_head)} :
           /\ repo' = done.repo
           /\ calls' = done.calls
           /\ last' = [op |-> "_process_package", push |-> push,
                       dry_run |-> dry_run, no_stash |-> no_stash,
                       keep_stash |-> keep_stash, outcome |-> done.outcome,
                       printed |-> done.printed, value |-> done.value,
                       before |-> repo]
    /\ UNCHANGED <<mode, versionVars, prev>>

\* has_commits_to_push(pkg, remote)
HasCommitsToPush ==
    /\ mode = "stage0"
    /\ last.op = "none"
    /\ \E has \in {has_commits_to_push(repo)} :
           /\ calls' = has.calls
           /\ last' = [op |-> "has_commits_to_push", outcome |-> has.outcome,
                       value |-> has.value, before |-> repo]
    /\ UNCHANGED <<mode, versionVars, repo, prev>>

Stage0Next ==
    \/ \E push \in BOOLEAN, dry_run \in BOOLEAN, no_stash \in BOOLEAN,
          keep_stash \in BOOLEAN, fallback_head \in BOOLEAN :
           ProcessPackage(push, dry_run, no_stash, keep_stash, fallback_head)
    \/ HasCommitsToPush

Stage0Spec == Stage0Init /\ [][Stage0Next]_vars

----------------------------------------------------------------------------
(* The state machine of stage 3 on one package.                            *)

\* histories of one to MaxCommits commits: without a tag, with a tag at the
\* first commit, with tags at the first and the second commit
Stage3InitialRepos ==
    {r \in [head : 1..MaxCommits,
            tags : SUBSET {Tag("v1", 1), Tag("v2", 2)},
            touched : BOOLEAN, changes_file : BOOLEAN,
            tag_message : {"missing", "text"}] :
        /\ \A t \in r.tags : t.commit <= r.head
        /\ Tag("v2", 2) \in r.tags => Tag("v1", 1) \in r.tags}

Stage3Init ==
    /\ mode = "stage3"
    /\ current_version = <<>>
    /\ bump_part = ""
    /\ new_version = Unset
    /\ next_dev = Unset
    /\ vpc = "idle"
    /\ repo \in Stage3InitialRepos
    /\ calls = <<>>
    /\ last = NoOperation
    /\ prev = NoOperation

\* stage3.run [--tag <from_tag>] [--dry-run] on the package
Stage3Run(dry_run, from_tag) ==
    /\ mode = "stage3"
    /\ \E done \in {stage3_process_package(repo, dry_run, from_tag)} :
           /\ repo' = done.repo
           /\ calls' = done.calls
           /\ last' = [op |-> "stage3.process_package", dry_run |-> dry_run,
                       from_tag |-> from_tag, outcome |-> done.outcome,
                       printed |-> done.printed, value |-> FALSE,
                       before |-> repo]
    /\ UNCHANGED <<mode, versionVars, prev>>

\* get_last_tag(pkg)
GetLastTag ==
    /\ mode = "stage3"
    /\ \E got \in {get_last_tag(repo)} :
           /\ calls' = got.calls
           /\ last' = [op |-> "get_last_tag", dry_run |-> FALSE,
                       from_tag |-> got.value, outcome |-> got.outcome,
                       printed |-> <<>>, value |-> FALSE, before |-> repo]
    /\ UNCHANGED <<mode, versionVars, repo, prev>>

\* has_changes_since_last_tag(pkg)
HasChangesSinceLastTag ==
    /\ mode = "stage3"
    /\ \E has \in {has_changes_since_last_tag(repo)} :
           /\ calls' = has.calls
           /\ last' = [op |-> "has_changes_since_last_tag",
                       dry_run |-> FALSE, from_tag |-> NoTag,
                       outcome |-> has.outcome, printed |-> <<>>,
                       value |-> has.value, before |-> repo]
    /\ UNCHANGED <<mode, versionVars, repo, prev>>

Stage3Next ==
    \/ \E dry_run \in BOOLEAN, from_tag \in {NoTag, "v1", "v9"} :
           Stage3Run(dry_run, from_tag)
    \/ GetLastTag
    \/ HasChangesSinceLastTag

Stage3Spec == Stage3Init /\ [][Stage3Next]_vars

\* stage 0 and stage 2, the two stages that ask has_commits_to_push
PushInit == Stage0Init \/ StageInit

PushNext == Stage0Next \/ StageNext

PushSpec == PushInit /\ [][PushNext]_vars

----------------------------------------------------------------------------
(* The runs of the stages over the packages directory: ws is the           *)
(* workspace, with the packages directory (packages_dir: whether it is     *)
(* there) and its packages in the sorted order of the loop.                *)

\* the first package whose loop body raised, or one past the last package
FirstRaised(results) ==
    IF \E i \in 1..Len(results) : results[i].outcome # "ok"
    THEN CHOOSE i \in 1..Len(results) :
             /\ results[i].outcome # "ok"
             /\ \A j \in 1..(i - 1) : results[j].outcome = "ok"
    ELSE Len(results) + 1

\* for pkg in sorted(packages_dir.iterdir()): results[i] is what the loop
\* body leaves for package i; an exception of the body leaves the loop and
\* ends the run
run_loop(ws, results) ==
    LET n == FirstRaised(results)
        visited == IF n > Len(results) THEN Len(results) ELSE n
    IN  [exit |-> IF n > Len(results) THEN 0 ELSE 1,
         raised |-> IF n > Len(results) THEN "" ELSE results[n].outcome,
         ws |-> [ws EXCEPT !.packages =
                    [i \in 1..Len(results) |->
                        IF i <= visited THEN results[i].repo
                        ELSE ws.packages[i]]],
         calls |-> [i \in 1..Len(results) |->
                       IF i <= visited THEN results[i].calls ELSE <<>>],
         processed |-> Cardinality({i \in 1..visited :
                                       results[i].processed = 1}),
         visited |-> visited]

\* as run_packages, without the test of the packages directory
run_packages_unchecked(ws, results) ==
    CHOOSE done \in {run_loop(ws, rs) : rs \in {results \o <<>>}} : TRUE

\* run: if not packages_dir.is_dir(): sys.exit(1), then the loop; the
\* results are computed once, as the tuple rs
run_packages(ws, results) ==
    IF ~ws.packages_dir
    THEN [exit |-> 1, raised |-> "SystemExit", ws |-> ws,
          calls |-> [i \in 1..Len(ws.packages) |-> <<>>],
          processed |-> 0, visited |-> 0]
    ELSE CHOOSE done \in {run_loop(ws, rs) : rs \in {results \o <<>>}} :
             TRUE

\* stage2.py: run
stage2_run_all(ws, commit, push, dry_run) ==
    run_packages(ws,
        [i \in 1..Len(ws.packages) |->
            Counted(stage2_run(ws.packages[i], commit, push, dry_run),
                    IF (commit \/ ~push)
                       /\ ws.packages[i].commit_message = "text"
                    THEN 1 ELSE 0)])

\* stage4.py: run
stage4_run_all(ws, bump, push, dry_run) ==
    run_packages(ws,
        [i \in 1..Len(ws.packages) |->
            stage4_run(ws.packages[i], bump, push, dry_run)])

\* stage5_tag.py: run
stage5_tag_run_all(ws, push, dry_run) ==
    run_packages(ws,
        [i \in 1..Len(ws.packages) |->
            Counted(stage5_tag_run(ws.packages[i], push, dry_run),
                    IF /\ ws.packages[i].pyproject
                       /\ ~_tag_exists(ws.packages[i],
                                       cfg_get_tag_prefix(ws.packages[i])
                                           \o ws.packages[i].version).value
                    THEN 1 ELSE 0)])

\* a package that is ready for stage 2 and for stage 4
ReadyPackage ==
    [worktree |-> "modified", staged |-> FALSE, head |-> 1,
     remote_branch |-> TRUE, remote_head |-> 1, upstream |-> TRUE,
     add_fault |-> FALSE, commit_fault |-> "none", push_fault |-> "none",
     tags |-> {}, remote_tags |-> {}, version |-> V041, prod_tag |-> <<>>,
     tag_message |-> "text", pyproject |-> TRUE, has_prefix |-> TRUE,
     log |-> <<V041>>, sources |-> FALSE, sources_log |-> <<FALSE>>,
     changes_dir |-> TRUE, changes_file |-> TRUE,
     commit_message |-> "text"]

\* the packages of the runs: ready, or without one of the artifacts, or
\* with a version that is not valid, or with a hook that rejects commits
RunPackages ==
    {ReadyPackage,
     [ReadyPackage EXCEPT !.worktree = "clean"],
     [ReadyPackage EXCEPT !.tag_message = "missing"],
     [ReadyPackage EXCEPT !.tag_message = "empty"],
     [ReadyPackage EXCEPT !.commit_message = "missing"],
     [ReadyPackage EXCEPT !.commit_message = "empty"],
     [ReadyPackage EXCEPT !.pyproject = FALSE],
     [ReadyPackage EXCEPT !.version = <<"x">>, !.log = <<<<"x">>>>],
     [ReadyPackage EXCEPT !.commit_fault = "hook"]}

NumPackages == 2

MaxRuns == 2

RunInit ==
    /\ mode = "run"
    /\ current_version = <<>>
    /\ bump_part = ""
    /\ new_version = Unset
    /\ next_dev = Unset
    /\ vpc = "idle"
    /\ repo \in [packages_dir : BOOLEAN,
                 packages : [1..NumPackages -> RunPackages]]
    /\ calls = <<>>
    /\ last = NoOperation
    /\ prev = NoOperation

\* the number of runs so far
RunsSoFar == IF last.op = "none" THEN 0 ELSE last.run

\* what the last run was and how it ended; before is the workspace it found
RunOperation(op, commit, bump, push, dry_run, done) ==
    [op |-> op, commit |-> commit, bump |-> bump, push |-> push,
     dry_run |-> dry_run, exit |-> done.exit, raised |-> done.raised,
     processed |-> done.processed, visited |-> done.visited,
     before |-> repo, run |-> RunsSoFar + 1]

\* the packages have room for the commits and the bump of one more run
RunBounded ==
    /\ RunsSoFar < MaxRuns
    /\ \A i \in 1..Len(repo.packages) :
           /\ repo.packages[i].head < MaxCommits
           /\ Distance(repo.packages[i].version) < MaxPatch

\* python -m release_tool.stage2 [--commit] [--push] [--dry-run]
Stage2RunAll(commit, push, dry_run) ==
    /\ mode = "run"
    /\ RunBounded
    /\ \E done \in {stage2_run_all(repo, commit, push, dry_run)} :
           /\ repo' = done.ws
           /\ calls' = done.calls
           /\ last' = RunOperation("stage2.run", commit \/ ~push, "", push,
                                   dry_run, done)
    /\ UNCHANGED <<mode, versionVars, prev>>

\* python -m release_tool.stage4 [--bump <part>] [--push] [--dry-run], at
\* least one of --bump and --push
Stage4RunAll(bump, push, dry_run) ==
    /\ mode = "run"
    /\ RunBounded
    /\ bump # "" \/ push
    /\ \E done \in {stage4_run_all(repo, bump, push, dry_run)} :
           /\ repo' = done.ws
           /\ calls' = done.calls
           /\ last' = RunOperation("stage4.run", FALSE, bump, push, dry_run,
                                   done)
    /\ UNCHANGED <<mode, versionVars, prev>>

\* python -m release_tool.stage5_tag [--push] [--dry-run]
Stage5TagRunAll(push, dry_run) ==
    /\ mode = "run"
    /\ RunBounded
    /\ \E done \in {stage5_tag_run_all(repo, push, dry_run)} :
           /\ repo' = done.ws
           /\ calls' = done.calls
           /\ last' = RunOperation("stage5_tag.run", FALSE, "", push,
                                   dry_run, done)
    /\ UNCHANGED <<mode, versionVars, prev>>

RunNext ==
    \/ \E commit \in BOOLEAN, push \in BOOLEAN, dry_run \in BOOLEAN :
          Stage2RunAll(commit, push, dry_run)
    \/ \E bump \in {"", "patch"}, push \in BOOLEAN, dry_run \in BOOLEAN :
          Stage4RunAll(bump, push, dry_run)
    \/ \E push \in BOOLEAN, dry_run \in BOOLEAN :
          Stage5TagRunAll(push, dry_run)

RunSpec == RunInit /\ [][RunNext]_vars

----------------------------------------------------------------------------
(* The whole model: a behaviour exercises the version algebra or the git   *)
(* layer.                                                                  *)

Init == VersionInit \/ GitInit \/ TagInit \/ ReleaseInit \/ AheadInit
        \/ StageInit \/ StashInit \/ Stage4Init \/ RunInit \/ Stage0Init
        \/ Stage3Init

Next == VersionNext \/ GitNext \/ TagNext \/ ReleaseNext \/ AheadNext
        \/ StageNext \/ StashNext \/ RunNext \/ Stage0Next
        \/ Stage3Next

Spec == Init /\ [][Next]_vars

----------------------------------------------------------------------------
(* C8: _run_git always returns a result record to its caller and never     *)
(* raises because the command exited with a non-zero status: the status is *)
(* only reported in the record.                                            *)
C8_RunGitReturns ==
    mode = "git"
    => /\ \A i \in 1..Len(calls) : ~calls[i].raised
       /\ last.outcome # "CalledProcessError"

C8_Witness ==
    /\ mode = "git"
    /\ last.outcome = "ok"
    /\ \E i \in 1..Len(calls) : calls[i].returncode # 0 /\ ~calls[i].raised

\* the output of call c has the nothing-to-commit phrasing
NothingToCommitPhrasing(c) ==
    \/ Contains(c.stdout \o c.stderr, <<"nothing", "to", "commit">>)
    \/ Contains(c.stdout \o c.stderr, <<"nothing", "added", "to", "commit">>)

(* C9: in commit_all (not dry-run), a non-zero exit of the commit step     *)
(* whose output has the nothing-to-commit phrasing is a success (no error  *)
(* from the commit, and the push step still runs when requested); a        *)
(* non-zero exit of the add step, or of the commit step with any other     *)
(* output, raises GitError.                                                *)
C9_CommitAllClassifies ==
    (mode = "git" /\ last.op = "commit_all" /\ ~last.dry_run)
    => /\ Len(calls) >= 1
       /\ calls[1].args = <<"add", "-A">>
       /\ calls[1].returncode # 0 =>
            last.outcome = "GitError" /\ Len(calls) = 1
       /\ calls[1].returncode = 0 =>
            /\ Len(calls) >= 2
            /\ calls[2].args = <<"commit", "-m">>
            /\ (calls[2].returncode # 0 /\ NothingToCommitPhrasing(calls[2])) =>
                 /\ last.push =>
                      Len(calls) >= 3 /\ calls[3].args = <<"push", "origin">>
                 /\ ~last.push => last.outcome = "ok" /\ Len(calls) = 2
                 /\ last.outcome = "GitError" =>
                      Len(calls) >= 3 /\ calls[Len(calls)].returncode # 0
            /\ (calls[2].returncode # 0 /\ ~NothingToCommitPhrasing(calls[2])) =>
                 last.outcome = "GitError" /\ Len(calls) = 2

C9_Witness ==
    /\ mode = "git"
    /\ last.op = "commit_all"
    /\ last.push
    /\ last.outcome = "ok"
    /\ Len(calls) >= 3
    /\ calls[2].returncode # 0
    /\ calls[3].args = <<"push", "origin">>

(* C10: commit_all called twice in a row, with the same arguments and with *)
(* no change to the working tree in between, the first call having         *)
(* returned normally: the second call raises no error and creates no new   *)
(* commit.                                                                 *)
C10_CommitAllTwice ==
    (/\ mode = "git"
     /\ last.op = "commit_all"
     /\ prev.op = "commit_all"
     /\ prev.outcome = "ok"
     /\ prev.push = last.push
     /\ prev.dry_run = last.dry_run)
    => /\ last.outcome = "ok"
       /\ repo.head = last.head_before

C10_Witness ==
    /\ mode = "git"
    /\ last.op = "commit_all"
    /\ prev.op = "commit_all"
    /\ prev.outcome = "ok"
    /\ ~prev.dry_run /\ ~last.dry_run
    /\ prev.push = last.push
    /\ prev.head_before < last.head_before
    /\ last.outcome = "ok"
    /\ calls[2].returncode # 0

\* the push commands among the calls of the last operation
PushCalls ==
    SelectSeq(calls, LAMBDA c : c.args[1] = "push")

\* the error output of call c has the missing-upstream phrasing
MissingUpstreamPhrasing(c) ==
    \/ Contains(c.stderr, <<"set", "upstream">>)
    \/ Contains(c.stderr, <<"--set-upstream">>)
    \/ Contains(c.stderr, <<"have", "no", "upstream">>)

(* C11: a call of _push_repo issues one or two push commands: a plain push *)
(* first; a second one, push --set-upstream, exactly when the first failed *)
(* with the missing-upstream phrasing. A first failure of another kind     *)
(* raises GitError with no retry, a failure of the second push raises      *)
(* GitError.                                                               *)
C11_PushRepoRetriesOnce ==
    (mode = "git" /\ last.op = "_push_repo")
    => /\ Len(PushCalls) \in 1..2
       /\ PushCalls[1].args = <<"push", "origin">>
       /\ Len(PushCalls) = 2 <=>
            PushCalls[1].returncode # 0 /\ MissingUpstreamPhrasing(PushCalls[1])
       /\ Len(PushCalls) = 2 => PushCalls[2].args = fallback_cmd
       /\ (PushCalls[1].returncode # 0
            /\ ~MissingUpstreamPhrasing(PushCalls[1])) =>
            last.outcome = "GitError"
       /\ (Len(PushCalls) = 2 /\ PushCalls[2].returncode # 0) =>
            last.outcome = "GitError"
       /\ PushCalls[Len(PushCalls)].returncode = 0 => last.outcome = "ok"

C11_Witness ==
    /\ mode = "git"
    /\ last.op = "_push_repo"
    /\ Len(PushCalls) = 2
    /\ MissingUpstreamPhrasing(PushCalls[1])
    /\ PushCalls[2].args = fallback_cmd
    /\ PushCalls[2].returncode # 0
    /\ last.outcome = "GitError"

\* the git commands of a call
IsCommit(c) == c.args = <<"commit", "-m">>
IsTagCreate(c) == c.args[1] = "tag" /\ c.args[2] = "-a"
IsPushBranch(c) == c.args = <<"push", "origin">>
IsPushTag(c) ==
    Len(c.args) = 3 /\ c.args[1] = "push" /\ c.args[2] = "origin"

(* C12: commit_and_tag, not dry-run, runs commit, tag, push branch, push    *)
(* tag in this order and stops with GitError at the first command that     *)
(* fails: every command before the last one run succeeded, so the tag      *)
(* command is not run after a failed commit and nothing is pushed after a  *)
(* failed tag; with push false no push command is run.                     *)
C12_CommitAndTagOrder ==
    (mode = "tag" /\ last.op = "commit_and_tag" /\ ~last.dry_run)
    => /\ Len(calls) \in 1..4
       /\ IsCommit(calls[1])
       /\ Len(calls) >= 2 =>
            IsTagCreate(calls[2]) /\ calls[2].args[3] = last.tag
       /\ Len(calls) >= 3 => IsPushBranch(calls[3])
       /\ Len(calls) = 4 =>
            IsPushTag(calls[4]) /\ calls[4].args[3] = last.tag
       /\ \A i \in 1..(Len(calls) - 1) : calls[i].returncode = 0
       /\ last.outcome \in {"ok", "GitError"}
       /\ last.outcome = "GitError" <=> calls[Len(calls)].returncode # 0
       /\ last.outcome = "ok" => Len(calls) = IF last.push THEN 4 ELSE 2
       /\ ~last.push => Len(calls) <= 2

C12_Witness ==
    /\ mode = "tag"
    /\ last.op = "commit_and_tag"
    /\ last.push
    /\ ~last.dry_run
    /\ Len(calls) = 4
    /\ calls[4].returncode # 0
    /\ last.outcome = "GitError"

(* C13: in the release stages, every tag command is run with a tag name    *)
(* that does not exist in the package repository, the stage having checked *)
(* it: the tag command never fails on a duplicate tag (no other fault of   *)
(* the tag command is in the environment of this machine).                 *)
C13_NoDuplicateTagError ==
    mode = "release"
    => \A i \in 1..Len(calls) :
          IsTagCreate(calls[i]) => calls[i].returncode = 0

(* C14: calc_ahead_behind returns (0, 0), whatever the local branch, when  *)
(* its command fails because the remote ref does not exist or prints       *)
(* nothing; when the command prints two counters it returns them as        *)
(* (ahead, behind); when it prints exactly one counter n it returns        *)
(* (n, 0).                                                                 *)
C14_CalcAheadBehind ==
    (mode = "ahead" /\ last.op = "calc_ahead_behind")
    => /\ (~repo.remote_ref \/ repo.counters = 0) => last.value = <<0, 0>>
       /\ (repo.remote_ref /\ repo.counters = 2) =>
            last.value = <<repo.ahead, repo.behind>>
       /\ (repo.remote_ref /\ repo.counters = 1) =>
            last.value = <<repo.ahead, 0>>

C14_Witness ==
    /\ mode = "ahead"
    /\ last.op = "calc_ahead_behind"
    /\ repo.remote_ref
    /\ repo.counters = 1
    /\ repo.ahead = 10
    /\ repo.behind = 2
    /\ last.value = <<10, 0>>

(* C15: a call of commit_all, commit_and_tag or _create_tag with dry_run    *)
(* set runs no git command, leaves the repository as it was and returns    *)
(* normally.                                                               *)
C15_DryRunRunsNothing ==
    [][(/\ mode = "tag"
        /\ last'.op \in {"commit_all", "commit_and_tag", "_create_tag"}
        /\ last'.dry_run)
       => /\ calls' = <<>>
          /\ repo' = repo
          /\ last'.outcome = "ok"]_vars

C15_Witness ==
    /\ mode = "tag"
    /\ last.op = "commit_and_tag"
    /\ last.dry_run
    /\ last.push
    /\ last.outcome = "ok"
    /\ calls = <<>>
    /\ repo.staged
    /\ repo.commit_fault = "none"
    /\ last.tag \notin TagNamesOf(repo.tags)

(* C16: a run of a stage with --dry-run, whatever its other flags, leaves  *)
(* the package repository, the remote and the directory of change          *)
(* artifacts as they were: no commit, push, file write or directory        *)
(* creation.                                                               *)
C16_DryRunStageChangesNothing ==
    [][(/\ mode = "stage"
        /\ last'.op \in {"stage1.run", "stage2.run"}
        /\ last'.dry_run)
       => repo' = repo]_vars

----------------------------------------------------------------------------
(* C17: a transaction of temporary_stash entered with enabled = false is a *)
(* no-op: it issues no git stash command (no push, pop or drop), the stash *)
(* stack stays as it was at entry, result.kept is false, and when the      *)
(* transaction is over the body has run exactly once.                      *)

\* the transaction under way or just finished
InTransaction == mode = "stash" /\ last.op = "temporary_stash"

StashCalls == SelectSeq(calls, LAMBDA c : c.args[1] = "stash")

C17_DisabledIsNoOp ==
    (InTransaction /\ ~last.enabled) =>
        /\ StashCalls = <<>>
        /\ repo.stash = last.before.stash
        /\ ~last.kept
        /\ (last.at = "done" => last.bodies = 1)

\* a disabled transaction is over, on a dirty tree with an entry stashed
C17_Witness ==
    /\ InTransaction
    /\ ~last.enabled
    /\ last.at = "done"
    /\ last.bodies = 1
    /\ last.before.changes # {}
    /\ last.before.stash # <<>>

----------------------------------------------------------------------------
(* C18: a transaction of temporary_stash entered with enabled = true on a  *)
(* clean working tree is a no-op: it neither pops nor drops a stash entry, *)
(* so the stash stack is, at every point of the transaction, the stack     *)
(* found at entry.                                                         *)

C18_CleanTreeIsNoOp ==
    (/\ InTransaction
     /\ last.enabled
     /\ last.before.changes = {}
     /\ ~last.before.unmerged) =>
        repo.stash = last.before.stash

----------------------------------------------------------------------------
(* C19: in an enabled transaction git stash pop runs exactly once, after   *)
(* the body has finished and never before or while it runs, and it runs    *)
(* on every exit path: while the body runs or has just returned or raised  *)
(* no pop has been made, and when the exit is over, whether the body       *)
(* returned or raised, exactly one pop has been made, after every call of  *)
(* the body.                                                               *)

IsPop(c) == c.args = <<"stash", "pop">>

PopCalls == SelectSeq(calls, IsPop)

\* every call of the body, a checkout, is logged before the pop
BodyBeforePop ==
    \A i \in 1..Len(calls), j \in 1..Len(calls) :
        (calls[i].args[1] = "checkout" /\ IsPop(calls[j])) => i < j

Enabled == InTransaction /\ last.enabled

C19_PopAfterBody ==
    Enabled =>
        /\ (last.at \in {"body", "finally"} => PopCalls = <<>>)
        /\ (last.at = "done" =>
               /\ last.outcome \in {"ok", "raised"}
               /\ Len(PopCalls) = 1
               /\ BodyBeforePop)

\* the body raised and the pop ran after it
C19_Witness ==
    /\ Enabled
    /\ last.at = "done"
    /\ last.outcome = "raised"
    /\ Len(PopCalls) = 1
    /\ IsPop(calls[2])

----------------------------------------------------------------------------
(* C20: when the exit of an enabled transaction runs, result.kept is true  *)
(* exactly when unmerged paths exist after the pop or the caller passed    *)
(* keep = true, and then no entry is dropped; otherwise result.kept is     *)
(* false and the stash stack is the one the pop left, or that one without  *)
(* its newest entry, which is removed only when its description contains   *)
(* the message of the transaction.                                         *)

C20_KeptOrRestored ==
    [][(Enabled /\ last.at = "finally" /\ last'.at = "done") =>
          LET popped == GitStashPop(repo).repo
          IN  /\ last'.kept <=> (popped.unmerged \/ last.keep)
              /\ last'.kept => repo'.stash = popped.stash
              /\ ~last'.kept =>
                    \/ repo'.stash = popped.stash
                    \/ /\ popped.stash # <<>>
                       /\ Contains(Head(popped.stash).message, last.message)
                       /\ repo'.stash = Tail(popped.stash)]_vars

\* a transaction restored the tree and dropped the newest entry
C20_Witness ==
    /\ Enabled
    /\ last.at = "done"
    /\ ~last.kept
    /\ \E i \in 1..Len(calls) :
           /\ calls[i].args = <<"stash", "drop", StashRefs[1]>>
           /\ calls[i].returncode = 0

----------------------------------------------------------------------------
(* C21: when a transaction that stashed the changes of a dirty working     *)
(* tree ends with result.kept true, because the pop left unmerged paths or *)
(* because keep = true was passed and the pop was clean, the stash entry   *)
(* the transaction created, the one with its message and the stashed       *)
(* changes, is still in the stash stack.                                   *)

\* the transaction found a tree with changes to stash
Stashed == Enabled /\ last.before.changes # {} /\ ~last.before.unmerged

\* the entry the transaction pushed lies right above the entries found at
\* entry
OwnEntryPresent ==
    LET n == Len(repo.stash) - Len(last.before.stash)
    IN  /\ n >= 1
        /\ Contains(repo.stash[n].message, last.message)
        /\ repo.stash[n].changes = last.before.changes

C21_KeptEntryRemains ==
    (Stashed /\ last.at = "done" /\ last.kept) => OwnEntryPresent

----------------------------------------------------------------------------
(* C22: a transaction with keep = false, entered on a dirty working tree   *)
(* around a checkout that does not conflict with the stashed changes, ends *)
(* with the checked-out branch carrying exactly the changes the tree had   *)
(* before, no unmerged path, result.kept false, and without the entry the  *)
(* transaction pushed in the stash stack.                                  *)

C22_CleanlyRestored ==
    (/\ Stashed
     /\ ~last.keep
     /\ ~repo.conflicting
     /\ last.at = "done"
     /\ last.outcome = "ok") =>
        /\ repo.branch = "dev_branch"
        /\ repo.changes = last.before.changes
        /\ ~repo.unmerged
        /\ ~last.kept
        /\ Len(repo.stash) <= Len(last.before.stash)
        /\ \A i \in 1..Len(repo.stash) :
               repo.stash[i] \in
                   {last.before.stash[j] : j \in 1..Len(last.before.stash)}

\* such a transaction is over, with an entry of the user still stashed
C22_Witness ==
    /\ Stashed
    /\ ~last.keep
    /\ ~repo.conflicting
    /\ last.at = "done"
    /\ last.outcome = "ok"
    /\ repo.changes = {"new"}
    /\ repo.stash # <<>>

----------------------------------------------------------------------------
(* C23: analyze_repo_status answers ahead = behind = 0 when the remote     *)
(* branch does not exist and the pair of calc_ahead_behind when it does;   *)
(* in both cases it asks git status for the uncommitted changes; and it    *)
(* runs only the read-only commands rev-parse, rev-list and status, which  *)
(* leave the repository as it was.                                         *)

ReadOnlyCommands == {"rev-parse", "rev-list", "status"}

C23_AnalyzeRepoStatus ==
    [][(mode = "ahead" /\ last'.op = "analyze_repo_status") =>
          /\ repo' = repo
          /\ \A i \in 1..Len(calls') :
                 calls'[i].args[1] \in ReadOnlyCommands
          /\ calls'[Len(calls')].args = <<"status", "--porcelain">>
          /\ last'.value.uncommitted = (repo.worktree # "clean")
          /\ <<last'.value.ahead, last'.value.behind>> =
                 IF repo.remote_branch
                 THEN calc_ahead_behind(repo, last'.branch,
                                        "origin/" \o last'.branch).value
                 ELSE <<0, 0>>
          /\ repo.remote_branch =>
                 \E i \in 1..Len(calls') : calls'[i].args[1] = "rev-list"]_vars

\* the status of a package that is ahead of its remote branch and has
\* uncommitted changes
C23_Witness ==
    /\ mode = "ahead"
    /\ last.op = "analyze_repo_status"
    /\ repo.remote_branch
    /\ last.value.ahead > 0
    /\ last.value.behind > 0
    /\ last.value.uncommitted

----------------------------------------------------------------------------
(* C28: when stage 4 is run again with the same bump kind on a package a   *)
(* failed run left half-mutated (pyproject.toml at the release version,    *)
(* the release commit or the tag not made), it completes the release of    *)
(* that version: pyproject.toml is not bumped a second time (it stays at   *)
(* the release version or goes on to its next development version) and     *)
(* the only tag it may create is the tag of that version.                  *)

\* the last bump_package wrote the release version and then failed in git,
\* and the tag of that version does not exist
HalfMutated ==
    /\ mode = "release"
    /\ last.op = "bump_package"
    /\ ~last.dry_run
    /\ last.outcome = "GitError"
    /\ tag_prefix \o repo.version = last.tag
    /\ \A t \in repo.tags : t.name # last.tag

C28_RerunCompletesRelease ==
    [][(/\ HalfMutated
        /\ last'.op = "bump_package"
        /\ last'.part = last.part
        /\ ~last'.dry_run) =>
           /\ repo'.version \in
                  {repo.version, _next_dev_version(repo.version).value}
           /\ \A t \in repo'.tags \ repo.tags : t.name = last.tag]_vars

----------------------------------------------------------------------------
(* C29: for a package at version 0.4.1 with a dirty working tree, a        *)
(* non-empty tag message, the tag prefix v and no tag, stage 4 with        *)
(* bump = patch and no push makes, in this order, a release commit whose   *)
(* pyproject.toml has version 0.4.2, the annotated local tag v0.4.2 at     *)
(* that commit, and a later commit whose pyproject.toml has version        *)
(* 0.4.3.dev0; nothing is pushed.                                          *)

Scenario041 ==
    /\ mode = "release"
    /\ repo.version = V041
    /\ repo.worktree = "modified" \/ repo.staged
    /\ repo.tag_message = "text"
    /\ repo.pyproject
    /\ repo.has_prefix
    /\ repo.tags = {}
    /\ repo.commit_fault = "none"

Committed(c) == IsCommit(c) /\ c.returncode = 0

IsTagA(c, tag) ==
    c.args = <<"tag", "-a", tag, "-m">> /\ c.returncode = 0

C29_ReleaseThenDevCycle ==
    [][(/\ Scenario041
        /\ last'.op = "bump_package"
        /\ last'.part = "patch"
        /\ ~last'.dry_run) =>
           /\ last'.outcome = "ok"
           /\ repo'.head = repo.head + 2
           /\ repo'.log = repo.log \o <<V042, V043dev0>>
           /\ repo'.version = V043dev0
           /\ repo'.tags = {Tag(tag_prefix \o V042, repo.head + 1)}
           /\ \E i, j, k \in 1..Len(calls') :
                  /\ i < j
                  /\ j < k
                  /\ Committed(calls'[i])
                  /\ IsTagA(calls'[j], tag_prefix \o V042)
                  /\ Committed(calls'[k])
                  /\ \A n \in 1..Len(calls') :
                         Committed(calls'[n]) => n \in {i, k}
           /\ \A n \in 1..Len(calls') : calls'[n].args[1] # "push"
           /\ repo'.remote_head = repo.remote_head
           /\ repo'.remote_tags = repo.remote_tags]_vars

\* the scenario has run on a package whose tree had unstaged changes
C29_Witness ==
    /\ mode = "release"
    /\ last.op = "bump_package"
    /\ last.part = "patch"
    /\ ~last.dry_run
    /\ last.outcome = "ok"
    /\ repo.log = <<V041, V042, V043dev0>>
    /\ repo.tags = {Tag(tag_prefix \o V042, 2)}
    /\ calls[1].args = <<"add", "-A">>

----------------------------------------------------------------------------
(* C30: a tag that stage 4 or stage 5 creates is named by the configured   *)
(* tag prefix followed by the version the stage releases (the bumped       *)
(* version in stage 4, the version of pyproject.toml in stage 5), and by   *)
(* that version alone when no prefix is configured: a package that is      *)
(* ready for the stage gets the tag of that name.                          *)

\* the tag name of the release the step makes
ReleasedTagName ==
    cfg_get_tag_prefix(repo) \o
        (IF last'.op = "bump_package"
         THEN bump_version(repo.version, last'.part).value
         ELSE repo.version)

\* nothing stands in the way of the release of the package
ReadyForRelease ==
    /\ mode = "release"
    /\ repo.tag_message = "text"
    /\ repo.pyproject
    /\ repo.commit_fault = "none"
    /\ repo.push_fault = "none"
    /\ ReleasedTagName \notin TagNamesOf(repo.tags)
    /\ ReleasedTagName \notin TagNamesOf(repo.remote_tags)

\* every tag the step creates has the name of the release
TagsNamedByRelease ==
    \A t \in repo'.tags \ repo.tags : t.name = ReleasedTagName

C30_TagNaming ==
    [][(/\ mode = "release"
        /\ last'.op \in {"bump_package", "stage5_tag"}
        /\ ~last'.dry_run) =>
           /\ TagsNamedByRelease
           /\ ReadyForRelease =>
                  ReleasedTagName \in TagNamesOf(repo'.tags)]_vars

\* what holds of the code: the naming of the tags that are created
C30_CreatedTagsNamed ==
    [][(/\ mode = "release"
        /\ last'.op \in {"bump_package", "stage5_tag"}
        /\ ~last'.dry_run) => TagsNamedByRelease]_vars

----------------------------------------------------------------------------
(* C24: a package whose artifact for the stage is missing or empty is      *)
(* skipped by the stage without error and without mutation: a run of       *)
(* stage 2 that commits makes no commit in a package whose commit message  *)
(* file is absent or empty and leaves its tree, index, history and         *)
(* pyproject.toml alone; a run of stage 4 runs no git command in a package *)
(* whose tag message file is absent or empty (no bump, commit, tag or      *)
(* push) and leaves it as it was.                                          *)

\* the step is a run of a stage over the packages directory
RunStep == mode = "run" /\ last'.op # "none" /\ last'.run = RunsSoFar + 1

\* the run ended by an exception of the loop body on package i
RaisedAt(i) == last'.raised # "" /\ last'.visited = i

\* the local side of a package: tree, index, history, tags, pyproject.toml
LocalSide(r) ==
    <<r.worktree, r.staged, r.head, r.log, r.tags, r.version, r.prod_tag>>

----------------------------------------------------------------------------
(* C25: an error in one package (a GitError, a version that is not valid)  *)
(* does not abort the run of a stage: the run goes on to the remaining     *)
(* packages and ends normally.                                             *)
C25_RunGoesOn ==
    [][(RunStep /\ repo.packages_dir) =>
          /\ last'.exit = 0
          /\ last'.visited = Len(repo.packages)]_vars

----------------------------------------------------------------------------
(* C26: the number of processed packages a run reports counts only         *)
(* packages on which the stage did something: it is at most the number of  *)
(* packages in which the run ran a git command.                            *)
C26_ProcessedCount ==
    [][(/\ RunStep
        /\ repo.packages_dir
        /\ ~last'.dry_run
        /\ last'.exit = 0) =>
           last'.processed <=
               Cardinality({i \in 1..Len(calls') : calls'[i] # <<>>})]_vars

----------------------------------------------------------------------------
(* C27: without the packages directory the run of a stage ends with a      *)
(* non-zero exit status, before any git command and with every package     *)
(* and file as it was.                                                     *)
C27_NoPackagesDirectory ==
    [][(RunStep /\ ~repo.packages_dir) =>
          /\ last'.exit # 0
          /\ last'.raised = "SystemExit"
          /\ last'.visited = 0
          /\ repo' = repo
          /\ \A i \in 1..Len(calls') : calls'[i] = <<>>]_vars

\* stage 4 was run for packages that are ready, without the directory
C27_Witness ==
    /\ mode = "run"
    /\ ~repo.packages_dir
    /\ last.op = "stage4.run"
    /\ last.bump = "patch"
    /\ ~last.dry_run
    /\ last.exit = 1
    /\ repo.packages[1] = ReadyPackage

----------------------------------------------------------------------------
(* C37: a temporary_stash transaction pops or drops no stash entry but its *)
(* own: when the transaction is over, whatever its outcome, the entries    *)
(* that were stashed when it began are still stashed, unchanged, below     *)
(* whatever the transaction left.                                          *)

\* the entries found at entry are the oldest entries of the stack
EarlierEntriesRemain ==
    LET n == Len(repo.stash) - Len(last.before.stash)
    IN  /\ n >= 0
        /\ SubSeq(repo.stash, n + 1, Len(repo.stash)) = last.before.stash

C37_ForeignEntriesUntouched ==
    (InTransaction /\ last.at = "done") => EarlierEntriesRemain

\* the same for the transactions that stash the changes of a dirty tree,
\* as stage 0 starts them
C37_DirtyTreeForeignUntouched ==
    (Stashed /\ last.at = "done") => EarlierEntriesRemain

----------------------------------------------------------------------------
(* C36: stage 4 with bump = dev makes the release commit and the tag and   *)
(* no commit after them, so that the tagged commit is the tip of the       *)
(* branch; and push_package pushes the branch before the tags and does     *)
(* not push the tags when the push of the branch failed.                   *)

\* the places of the pushes in the calls of the step
TagPushes ==
    {n \in 1..Len(calls') : calls'[n].args = <<"push", "origin", AllTags>>}

BranchPushes == {n \in 1..Len(calls') : IsPushBranch(calls'[n])}

C36_DevReleaseAndPushOrder ==
    [][/\ (/\ mode = "release"
           /\ last'.op = "bump_package"
           /\ last'.part = "dev"
           /\ ~last'.dry_run
           /\ last'.outcome = "ok"
           /\ calls' # <<>>) =>
              /\ repo'.head = repo.head + 1
              /\ Cardinality({n \in 1..Len(calls') :
                                  IsCommit(calls'[n])}) = 1
              /\ \E t \in repo'.tags \ repo.tags :
                     /\ t.name = last'.tag
                     /\ t.commit = repo'.head
       /\ (mode = "release" /\ last'.op = "push_package") =>
              /\ \A n \in TagPushes :
                     \E m \in BranchPushes :
                         m < n /\ calls'[m].returncode = 0
              /\ (\E m \in BranchPushes : calls'[m].returncode # 0) =>
                     /\ TagPushes = {}
                     /\ repo'.remote_tags = repo.remote_tags
                     /\ last'.outcome = "GitError"
              /\ (~last'.dry_run) => BranchPushes # {}]_vars

\* push_package has failed at the branch of a package whose tip is the
\* tagged commit of a dev release, with a remote that would take the tag
C36_Witness ==
    /\ mode = "release"
    /\ last.op = "push_package"
    /\ ~last.dry_run
    /\ last.outcome = "GitError"
    /\ ~repo.upstream
    /\ repo.push_fault = "none"
    /\ repo.tags =
           {Tag(tag_prefix \o V041 \o <<".", "d", "e", "v", "1">>, repo.head)}
    /\ repo.head = 2
    /\ Len(calls) = 1

----------------------------------------------------------------------------
(* C39: stage 4 with bump in {patch, minor, major} and then stage 5, run   *)
(* in this order on a package, create one tag, the tag of the released     *)
(* version: stage 5 run after such a stage 4 creates no tag, and no tag    *)
(* it creates is at a commit whose pyproject.toml has a development        *)
(* version.                                                                *)

\* stage 4 has just released the package
Stage4Released ==
    /\ mode = "release"
    /\ last.op = "bump_package"
    /\ last.part \in {"patch", "minor", "major"}
    /\ ~last.dry_run
    /\ last.outcome = "ok"
    /\ \E t \in repo.tags : t.name = last.tag /\ t.commit > last.head_before

C39_OneTagPerRelease ==
    [][(Stage4Released /\ last'.op = "stage5") =>
          /\ repo'.tags = repo.tags
          /\ \A t \in repo'.tags \ repo.tags :
                 ~Version(repo'.log[t.commit]).is_dev]_vars

----------------------------------------------------------------------------
(* C35: in stage 4 with bump in {patch, minor, major} the commit that      *)
(* starts the development cycle has the pyproject.toml of the commit that  *)
(* was HEAD before the release commit, but for the version: the workspace  *)
(* references removed for the release commit are in it again.              *)
C35_DevCycleRestoresSources ==
    [][(/\ mode = "release"
        /\ last'.op = "bump_package"
        /\ last'.part \in {"patch", "minor", "major"}
        /\ ~last'.dry_run
        /\ last'.outcome = "ok"
        /\ repo'.head = repo.head + 2) =>
           /\ repo'.sources_log[repo'.head] = repo.sources_log[repo.head]
           /\ repo'.log[repo'.head] =
                  _next_dev_version(repo'.log[repo.head + 1]).value]_vars

\* C40: stage4._next_dev_version and stage6._next_dev_version return the
\* same string for every input of the shapes M.m.p and M.m.p.devN, and the
\* bump_version of stage4 and of stage4_prepare return the same result, or
\* both raise, for every such input and every bump kind
C40_CopiesAgree ==
    (mode = "version" /\ (IsMMP(current_version) \/ IsMMPDev(current_version)))
    => /\ vpc = "stage6_next_dev"
          => next_dev = _next_dev_version(current_version)
       /\ vpc = "prepared"
          => new_version = bump_version(current_version, bump_part)

----------------------------------------------------------------------------
(* C31: in stage 0, when the fast-forward of the local dev branch to       *)
(* origin/dev_branch cannot be applied because the histories diverge, a    *)
(* warning is printed and the processing of the package goes on; no merge  *)
(* commit, rebase, reset or forced update is made, and the local branch    *)
(* points to the commit it pointed to before.                              *)

Stage0Ran == mode = "stage0" /\ last.op = "_process_package"

\* the places of the fast-forwards that git refused because the branch has
\* commits the target has not
RefusedMerges ==
    {n \in 1..Len(calls) :
        /\ calls[n].args = <<"merge", "--ff-only", "origin/dev_branch">>
        /\ calls[n].returncode # 0
        /\ calls[n].stderr = NotPossibleToFastForward}

\* a command that rewrites or force-moves a branch
Rewrites(args) ==
    \/ args[1] \in {"rebase", "reset", "commit", "pull"}
    \/ args[1] = "merge" /\ args # <<"merge", "--ff-only", "origin/dev_branch">>
    \/ args[1] = "checkout" /\ Len(args) = 4
    \/ args[1] = "push" /\ \E i \in 1..Len(args) :
                              args[i] \in {"--force", "-f",
                                           "--force-with-lease"}

C31_DivergedBranchLeftAlone ==
    (Stage0Ran /\ RefusedMerges # {})
    => /\ \E i \in 1..Len(last.printed) : last.printed[i] = "diverges"
       /\ \A n \in RefusedMerges :
             /\ n < Len(calls)
             /\ calls[n + 1].args
                = <<"rev-parse", "--verify", "origin/dev_branch">>
       /\ \A n \in 1..Len(calls) : ~Rewrites(calls[n].args)
       /\ repo.dev_tip = last.before.dev_tip
       /\ repo.ahead = last.before.ahead
       /\ repo.behind = last.before.behind
       /\ repo.remote_branch = last.before.remote_branch

\* a run on a branch that has diverged from the remote branch
C31_Witness ==
    /\ Stage0Ran
    /\ last.before.ahead > 0
    /\ last.before.behind > 0
    /\ RefusedMerges # {}
    /\ last.outcome = "ok"
    /\ repo.branch = "dev_branch"

----------------------------------------------------------------------------
(* C33: in stage 0 a non-zero exit of a mutating git command (fetch,       *)
(* branch checkout or creation, stash push, stash pop) is fatal for the    *)
(* package: the package is not reported as a successfully prepared branch  *)
(* and no later step (upstream setup, push) is run for it.                 *)

\* the places of the fetch, checkout and stash push / pop calls that failed
FailedMutations ==
    {n \in 1..Len(calls) :
        /\ calls[n].returncode # 0
        /\ \/ calls[n].args[1] \in {"fetch", "checkout"}
           \/ calls[n].args[1] = "stash" /\ calls[n].args[2] \in {"push", "pop"}}

C33_FailedCommandIsFatal ==
    (Stage0Ran /\ FailedMutations # {})
    => /\ \A i \in 1..Len(last.printed) : last.printed[i] # "prepared"
       /\ \A n \in FailedMutations : \A k \in (n + 1)..Len(calls) :
             calls[k].args[1] \notin {"branch", "push"}

----------------------------------------------------------------------------
(* C38: stage 0 never runs a branch checkout or (re)creation while the     *)
(* working tree holds uncommitted changes that have not been stashed: on   *)
(* every path of _process_package a dirty tree is stashed before the       *)
(* checkout, or the package is skipped with no checkout.                   *)

\* the changes of the working tree were stashed before the call at n
StashedBefore(n) ==
    \E k \in 1..(n - 1) :
        /\ calls[k].args[1] = "stash"
        /\ calls[k].args[2] = "push"
        /\ calls[k].returncode = 0

C38_NoCheckoutOnDirtyTree ==
    Stage0Ran
    => \A n \in 1..Len(calls) :
          calls[n].args[1] = "checkout"
          => (last.before.changes = {} \/ StashedBefore(n))

\* the same on the path that creates the branch from the base
C38_CreatedBranchStashes ==
    (Stage0Ran /\ ~last.before.remote_branch)
    => \A n \in 1..Len(calls) :
          calls[n].args[1] = "checkout"
          => (last.before.changes = {} \/ StashedBefore(n))

----------------------------------------------------------------------------
(* C34: has_commits_to_push returns true when the remote has no branch of  *)
(* the current branch's name, and otherwise exactly when the count of      *)
(* <remote>/<branch>..HEAD is greater than zero; stage 0 and stage 2 issue *)
(* a push only when has_commits_to_push returned true.                     *)

\* the commits of the current branch that its remote branch has not
AheadOfRemote(r) == IF r.branch = "dev_branch" THEN r.ahead ELSE 0

\* the call at n - 1 is the one that made has_commits_to_push return true
AnsweredTrue(n) ==
    /\ n >= 2
    /\ LET asked == calls[n - 1]
       IN  \/ /\ Len(asked.args) = 3
              /\ asked.args[1] = "rev-parse"
              /\ asked.args[2] = "--verify"
              /\ asked.returncode # 0
           \/ /\ Len(asked.args) = 3
              /\ asked.args[1] = "rev-list"
              /\ asked.args[2] = "--count"
              /\ asked.returncode = 0
              /\ StrToInt(Strip(asked.stdout)) > 0

\* the call at n is the second attempt of the push of _push_repo
Retried(n) ==
    /\ n >= 3
    /\ calls[n].args = fallback_cmd
    /\ calls[n - 2].args = <<"push", "origin">>
    /\ calls[n - 1].args = <<"rev-parse", "--abbrev-ref", "HEAD">>

C34_PushOnlyWhenAhead ==
    /\ (mode = "stage0" /\ last.op = "has_commits_to_push")
       => /\ last.outcome = "ok"
          /\ last.value
             = (~RefExists(repo, "origin/" \o repo.branch)
                \/ AheadOfRemote(repo) > 0)
    /\ (last.op \in {"_process_package", "stage2.run"})
       => \A n \in 1..Len(calls) :
             calls[n].args[1] = "push" => (AnsweredTrue(n) \/ Retried(n))

\* stage 0 has pushed a branch that the remote did not have
C34_Witness ==
    /\ Stage0Ran
    /\ last.push
    /\ ~last.before.remote_branch
    /\ last.value[1]
    /\ repo.remote_branch
    /\ \E n \in 1..Len(calls) : calls[n].args[1] = "push" /\ AnsweredTrue(n)

----------------------------------------------------------------------------
(* C32: in a repository that has no tag, get_last_tag returns None without *)
(* raising, has_changes_since_last_tag returns true without raising, and   *)
(* stage 3 treats the package as having changes to capture: it does not    *)
(* pass over the package, does not fail, and writes the changes file.      *)
C32_NoTagMeansChanges ==
    (mode = "stage3" /\ last.op # "none" /\ last.before.tags = {})
    => /\ last.outcome = "ok"
       /\ last.op = "get_last_tag" => last.from_tag = NoTag
       /\ last.op = "has_changes_since_last_tag" => last.value
       /\ (last.op = "stage3.process_package" /\ last.from_tag = NoTag)
          => /\ last.printed # <<"no new commits">>
             /\ (~last.dry_run /\ last.before.touched) => repo.changes_file

\* the same for the repositories whose HEAD has a parent
C32_NoTagWithParent ==
    (mode = "stage3" /\ last.op # "none" /\ last.before.tags = {}
     /\ last.before.head >= 2)
    => /\ last.outcome = "ok"
       /\ last.op = "get_last_tag" => last.from_tag = NoTag
       /\ last.op = "has_changes_since_last_tag" => last.value
       /\ (last.op = "stage3.process_package" /\ last.from_tag = NoTag)
          => /\ last.printed # <<"no new commits">>
             /\ (~last.dry_run /\ last.before.touched) => repo.changes_file

====
